---- MODULE Spec2Model ----
(***************************************************************************)
(* A model of the geometry core of lapstrake: the centripetal Catmull-Rom  *)
(* segment (catmullrom.rs), the chained Spline (spline.rs), the Hull's     *)
(* plank construction (hull.rs) and plank flattening and layout            *)
(* (plank.rs, hull.rs).                                                    *)
(*                                                                         *)
(* Numbers.  The program computes in f32 feet.  The model computes in      *)
(* fixed point: an integer n stands for n/FP feet, a product or quotient   *)
(* of two such numbers is rounded to the nearest integer (Mul, Div), and   *)
(* a square root is the nearest integer root.  An operation whose f32      *)
(* result is not a number (acos outside [-1,1]) yields the value NaN.      *)
(* Points are tuples of such numbers: <<x, y, z>> (P3) and <<x, y>> (P2).  *)
(***************************************************************************)
EXTENDS Integers, Sequences, FiniteSets, TLC

\* ------------------------------------------------------------------------
\* Bounds of the model.

\* Fixed-point units per foot.
FP == 100
\* Longest list of reference points handed to Spline::new.
MaxLen == 5
\* Largest curve resolution.
MaxRes == 2
\* at_t is queried at the fractions 0/TDen .. TDen/TDen, and
\* sample(Some(r)) is called with r in 1..TDen.
TDen == 4
\* The pivots of triangulate have coordinates of 0..TriCoord feet.
TriCoord == 4
\* The target distances of triangulate are 0..TriDist feet.
TriDist == 5
\* The rounding allowed in a distance triangulate realizes, in fixed-point
\* units for each foot of the distance.
TriTol == 2
\* Most rows in a plank table.
MaxRows == 4
\* The resolution of the Hull.
HullRes == 2
MaxText == 6
MaxU32 == 255

\* ------------------------------------------------------------------------
\* f32 arithmetic in fixed point.

\* let v = e; Body(v): e is computed once, before Body uses it.
Bind(e, Body(_)) == CHOOSE r \in {Body(v) : v \in {w \in {e} : w = w}} : TRUE

Abs(x) == IF x < 0 THEN -x ELSE x

Last(s) == s[Len(s)]

\* a / b rounded to the nearest integer (b # 0).
Div(a, b) ==
    IF b > 0 THEN (2 * a + b) \div (2 * b)
    ELSE (2 * (-a) + (-b)) \div (2 * (-b))

\* The product of two fixed-point numbers.
Mul(a, b) == Div(a * b, FP)

\* The quotient of two fixed-point numbers.
Quot(a, b) == Div(a * FP, b)

RECURSIVE Newton(_, _)
Newton(n, r) ==
    LET s == (r + n \div r) \div 2
    IN  IF s >= r THEN r ELSE Newton(n, s)

\* The integer nearest to the square root of n >= 0.
ISqrt(n) ==
    IF n = 0 THEN 0
    ELSE LET r == Newton(n, n)
         IN  IF n - r * r > r THEN r + 1 ELSE r

\* f32::sqrt of a fixed-point number.
FSqrt(x) == ISqrt(x * FP)

\* scad_dots::utils::distance, on P3 and on P2.
distance3(p, q) ==
    ISqrt((p[1] - q[1]) * (p[1] - q[1]) + (p[2] - q[2]) * (p[2] - q[2])
          + (p[3] - q[3]) * (p[3] - q[3]))

distance2(p, q) ==
    ISqrt((p[1] - q[1]) * (p[1] - q[1]) + (p[2] - q[2]) * (p[2] - q[2]))

\* util::practically_zero: |x| < 0.00000001 feet.  The threshold is below
\* one fixed-point unit, so only 0 is under it.
practically_zero(x) == Abs(x) < 1

\* util::project(Axis::X, p): the (y, z) of a P3.
project(p) == <<p[2], p[3]>>

\* ------------------------------------------------------------------------
\* catmullrom.rs

\* Segment::index beginning the first segment at the knot of the middle
\* one.
Segment_index_middle(segment) ==
    CASE segment = "Last" -> 2
      [] OTHER -> 1

\* Segment::index: the knot at which the segment begins.
Segment_index(segment) ==
    CASE segment = "First" -> 0
      [] segment = "Middle" -> 1
      [] segment = "Last" -> 2

\* CentripetalCatmullRom::new with every knot below the one before it.
CentripetalCatmullRom_new_backwards(pts) ==
    LET t_0 == 0
        t_1 == t_0 - FSqrt(distance3(pts[2], pts[1]))
        t_2 == t_1 - FSqrt(distance3(pts[3], pts[2]))
        t_3 == t_2 - FSqrt(distance3(pts[4], pts[3]))
    IN  [points |-> pts,
         knots |-> [i \in 0..3 |-> CASE i = 0 -> t_0 [] i = 1 -> t_1
                                     [] i = 2 -> t_2 [] i = 3 -> t_3]]

\* CentripetalCatmullRom::new: the four knots of a window of four points,
\* as a 0-indexed function like the array knots.
CentripetalCatmullRom_new(pts) ==
    LET t_0 == 0
        t_1 == FSqrt(distance3(pts[2], pts[1])) + t_0
        t_2 == FSqrt(distance3(pts[3], pts[2])) + t_1
        t_3 == FSqrt(distance3(pts[4], pts[3])) + t_2
    IN  [points |-> pts,
         knots |-> [i \in 0..3 |-> CASE i = 0 -> t_0 [] i = 1 -> t_1
                                     [] i = 2 -> t_2 [] i = 3 -> t_3]]

\* CentripetalCatmullRom::intermediate: one weighted blend of p and q.
intermediate(c, i, j, p, q, t) ==
    LET t_i == c.knots[i]
        t_j == c.knots[j]
        wl == Quot(t_j - t, t_j - t_i)
        wr == Quot(t - t_i, t_j - t_i)
    IN  [k \in 1..3 |-> Mul(wl, p[k]) + Mul(wr, q[k])]

\* CentripetalCatmullRom::compute
compute(c, t, use_lagrangian) ==
    LET a_1 == intermediate(c, 0, 1, c.points[1], c.points[2], t)
        a_2 == intermediate(c, 1, 2, c.points[2], c.points[3], t)
        a_3 == intermediate(c, 2, 3, c.points[3], c.points[4], t)
        b_1 == intermediate(c, 0, 2, a_1, a_2, t)
        b_2 == intermediate(c, 1, 3, a_2, a_3, t)
    IN  IF use_lagrangian
        THEN intermediate(c, 0, 3, b_1, b_2, t)
        ELSE intermediate(c, 1, 2, b_1, b_2, t)

\* CentripetalCatmullRom::at: f is a fixed-point fraction of the segment.
catmull_at(c, f, segment) ==
    LET i == Segment_index(segment)
        t == c.knots[i] + Mul(f, c.knots[i + 1] - c.knots[i])
    IN  compute(c, t, segment # "Middle")

\* catmull_sample without the extra point at the end of the spline.
catmull_sample_no_end(c, segment, resolution, at_end) ==
    [k \in 1..resolution |-> catmull_at(c, Div((k - 1) * FP, resolution), segment)]

\* CentripetalCatmullRom::sample: `resolution` points, one more if at_end.
catmull_sample(c, segment, resolution, at_end) ==
    [k \in 1..resolution |-> catmull_at(c, Div((k - 1) * FP, resolution), segment)]
    \o (IF at_end THEN <<catmull_at(c, FP, segment)>> ELSE <<>>)

\* ------------------------------------------------------------------------
\* spline.rs

RECURSIVE count_from(_, _, _, _)
count_from(points, k, prev_point, multiplicity) ==
    IF k > Len(points) THEN <<<<prev_point, multiplicity>>>>
    ELSE IF points[k] = prev_point
         THEN count_from(points, k + 1, points[k], multiplicity + 1)
         ELSE <<<<prev_point, multiplicity>>>>
              \o count_from(points, k + 1, points[k], 1)

\* count_multiplicity without the push of the last run after the loop.
count_multiplicity_drop_last(points) ==
    LET runs == count_from(points, 2, points[1], 1)
    IN  SubSeq(runs, 1, Len(runs) - 1)

\* count_multiplicity: each run of equal consecutive points, with its
\* length.  The caller has checked that points is not empty.
count_multiplicity(points) == count_from(points, 2, points[1], 1)

\* repeat that forgets the resolution: multiplicity - 1 copies.
repeat_once(pm, resolution) ==
    [k \in 1..(pm[2] - 1) |-> pm[1]]

\* repeat: (multiplicity - 1) * resolution copies of the point.
repeat(pm, resolution) ==
    [k \in 1..((pm[2] - 1) * resolution) |-> pm[1]]

\* The points the loop body of Spline::new adds for window i (0-based).
window_points(ref_points, n, resolution, i) ==
    LET array == <<ref_points[i + 1][1], ref_points[i + 2][1],
                   ref_points[i + 3][1], ref_points[i + 4][1]>>
    IN  Bind(CentripetalCatmullRom_new(array), LAMBDA catmull :
        (IF i = 0
         THEN repeat(ref_points[i + 1], resolution)
              \o catmull_sample(catmull, "First", resolution, FALSE)
         ELSE <<>>)
        \o repeat(ref_points[i + 2], resolution)
        \o catmull_sample(catmull, "Middle", resolution, FALSE)
        \o (IF i = n - 4
            THEN repeat(ref_points[i + 3], resolution)
                 \o catmull_sample(catmull, "Last", resolution, TRUE)
                 \o repeat(ref_points[i + 4], resolution)
            ELSE <<>>))

RECURSIVE windows_from(_, _, _, _)
windows_from(ref_points, n, resolution, i) ==
    IF i > n - 4 THEN <<>>
    ELSE window_points(ref_points, n, resolution, i)
         \o windows_from(ref_points, n, resolution, i + 1)

\* Spline::new.  status is "Ok" (points is the cached polyline), "Err"
\* (the bail!) or "Panic" (the expect on an empty vector).
Spline_new(input, resolution) ==
    IF Len(input) = 0 THEN [status |-> "Panic", points |-> <<>>]
    ELSE Bind(count_multiplicity(input), LAMBDA ref_points :
         LET n == Len(ref_points)
         IN  IF n < 4 THEN [status |-> "Err", points |-> <<>>]
             ELSE [status |-> "Ok",
                   points |-> windows_from(ref_points, n, resolution, 0)])

\* projected_distance(Axis::X, a, b)
projected_distance(point_a, point_b) ==
    distance2(project(point_b), project(point_a))

\* The loop of Spline::length adding the distances in space.
RECURSIVE length_from_in_space(_, _)
length_from_in_space(points, k) ==
    IF k > Len(points) THEN 0
    ELSE distance3(points[k], points[k - 1])
         + length_from_in_space(points, k + 1)

\* The loop of Spline::length from point k on.
RECURSIVE length_from(_, _)
length_from(points, k) ==
    IF k > Len(points) THEN 0
    ELSE distance2(project(points[k]), project(points[k - 1]))
         + length_from(points, k + 1)

\* Spline::length
Spline_length(points) == length_from(points, 2)

\* linear_interpolate: t is a fixed-point fraction.
linear_interpolate(t, pt1, pt2) ==
    [k \in 1..3 |-> Mul(FP - t, pt1[k]) + Mul(t, pt2[k])]

\* at_len's walk with a strict comparison: a segment is taken only when the
\* accumulated length passes the desired length.
RECURSIVE at_len_from_strict(_, _, _, _)
at_len_from_strict(points, desired_length, k, len) ==
    IF k > Len(points)
    THEN [status |-> "Panic", point |-> <<>>, segment |-> 0, arc |-> 0]
    ELSE LET prev_point == points[k - 1]
             point == points[k]
             delta == projected_distance(point, prev_point)
         IN  IF len + delta > desired_length
             THEN IF practically_zero(delta)
                  THEN [status |-> "Ok", point |-> prev_point,
                        segment |-> k - 1, arc |-> len]
                  ELSE LET t == Quot(desired_length - len, delta)
                       IN  [status |-> "Ok",
                            point |-> linear_interpolate(t, prev_point, point),
                            segment |-> k - 1,
                            arc |-> len + Mul(t, delta)]
             ELSE at_len_from_strict(points, desired_length, k + 1, len + delta)

\* at_len's walk returning the last sample, instead of aborting, when it
\* falls off the end.
RECURSIVE at_len_from_clamped(_, _, _, _)
at_len_from_clamped(points, desired_length, k, len) ==
    IF k > Len(points)
    THEN [status |-> "Ok", point |-> Last(points), segment |-> Len(points) - 1,
          arc |-> len]
    ELSE LET prev_point == points[k - 1]
             point == points[k]
             delta == projected_distance(point, prev_point)
         IN  IF len + delta >= desired_length
             THEN IF practically_zero(delta)
                  THEN [status |-> "Ok", point |-> prev_point,
                        segment |-> k - 1, arc |-> len]
                  ELSE LET t == Quot(desired_length - len, delta)
                       IN  [status |-> "Ok",
                            point |-> linear_interpolate(t, prev_point, point),
                            segment |-> k - 1,
                            arc |-> len + Mul(t, delta)]
             ELSE at_len_from_clamped(points, desired_length, k + 1, len + delta)

\* The walk of Spline::at_len from segment k on.  The result records the
\* point returned, the segment it lies in and the length accumulated up to
\* it; status is "Panic" when the walk falls off the end.
RECURSIVE at_len_from(_, _, _, _)
at_len_from(points, desired_length, k, len) ==
    IF k > Len(points)
    THEN [status |-> "Panic", point |-> <<>>, segment |-> 0, arc |-> 0]
    ELSE LET prev_point == points[k - 1]
             point == points[k]
             delta == projected_distance(point, prev_point)
         IN  IF len + delta >= desired_length
             THEN IF practically_zero(delta)
                  THEN [status |-> "Ok", point |-> prev_point,
                        segment |-> k - 1, arc |-> len]
                  ELSE LET t == Quot(desired_length - len, delta)
                       IN  [status |-> "Ok",
                            point |-> linear_interpolate(t, prev_point, point),
                            segment |-> k - 1,
                            arc |-> len + Mul(t, delta)]
             ELSE at_len_from(points, desired_length, k + 1, len + delta)

\* Spline::at_len
Spline_at_len(points, desired_length) ==
    Bind(desired_length, LAMBDA desired : at_len_from(points, desired, 2, 0))

\* Spline::at_t: t is a fixed-point fraction.
Spline_at_t(points, t) ==
    Bind(points, LAMBDA self :
        Spline_at_len(self, Mul(t, Spline_length(self))))

\* Spline::sample(Some(resolution)): the walks of at_t(i / resolution) for
\* i in 0..resolution, in that order.
Spline_sample_walks(points, resolution) ==
    [k \in 1..(resolution + 1) |->
        Spline_at_t(points, Div((k - 1) * FP, resolution))]

\* Spline::sample(Some(resolution)): the points of those walks.
Spline_sample(points, resolution) ==
    LET walks == Spline_sample_walks(points, resolution)
    IN  [k \in 1..Len(walks) |-> walks[k].point]

\* The insertion index (0-based) of Rust's binary_search_by on points
\* ordered by x: the search halves [base, base + size) until size is 1.
RECURSIVE binary_search(_, _, _, _)
binary_search(points, desired_x, base, size) ==
    IF size > 1
    THEN LET half == size \div 2
             mid == base + half
         IN  binary_search(points, desired_x,
                           IF points[mid + 1][1] > desired_x THEN base ELSE mid,
                           size - half)
    ELSE IF points[base + 1][1] < desired_x THEN base + 1 ELSE base

\* at_x returning the cached sample before the index the binary search
\* gives, where there is one.
Spline_at_x_before(points, desired_x) ==
    LET i == binary_search(points, desired_x, 0, Len(points))
    IN  IF i < Len(points)
        THEN [status |-> "Ok", point |-> points[IF i > 0 THEN i ELSE 1]]
        ELSE [status |-> "Panic", point |-> <<>>]

\* at_x returning an error when the index the binary search gives is the
\* length of the polyline.
Spline_at_x_bailing(points, desired_x) ==
    LET i == binary_search(points, desired_x, 0, Len(points))
    IN  IF i < Len(points)
        THEN [status |-> "Ok", point |-> points[i + 1]]
        ELSE [status |-> "Err", point |-> <<>>]

\* Spline::at_x: the cached sample at the index the binary search gives;
\* "Panic" (the expect) when that index is the length of the polyline.
Spline_at_x(points, desired_x) ==
    LET i == binary_search(points, desired_x, 0, Len(points))
    IN  IF i < Len(points)
        THEN [status |-> "Ok", point |-> points[i + 1]]
        ELSE [status |-> "Panic", point |-> <<>>]

\* ------------------------------------------------------------------------
\* plank.rs: triangulation in the plane.

\* The P2 all of whose coordinates are NaN.
NaN2 == <<"NaN">>
IsNaN(p) == Len(p) = 1

\* nalgebra::normalize
normalize(v) ==
    LET n == ISqrt(v[1] * v[1] + v[2] * v[2])
    IN  <<Quot(v[1], n), Quot(v[2], n)>>

\* Rotation2 * v, for the rotation with cosine c and sine s.
Rotate(c, s, v) ==
    <<Mul(c, v[1]) - Mul(s, v[2]), Mul(s, v[1]) + Mul(c, v[2])>>

\* pt + x * (Rotation2::new(sign * acos(num / den)) * normalize(toward)):
\* the tail of both law-of-cosines branches of triangulate.  The quotient
\* is NaN or infinite when den is 0 and acos is NaN outside [-1, 1].
pivot(pt, toward, x, num, den, sign) ==
    IF den = 0 THEN NaN2
    ELSE LET c == Div(num * FP, den)
         IN  IF Abs(c) > FP THEN NaN2
             ELSE LET s == sign * ISqrt(FP * FP - c * c)
                      r == Rotate(c, s, normalize(toward))
                  IN  <<pt[1] + Mul(x, r[1]), pt[2] + Mul(x, r[2])>>

\* triangulate testing x before the distance between the pivots.
triangulate_x_first(pt1, pt2, x, y) ==
    IF IsNaN(pt1) \/ IsNaN(pt2) THEN NaN2
    ELSE LET l == distance2(pt1, pt2)
         IN  IF practically_zero(x)
             THEN pivot(pt2, <<pt1[1] - pt2[1], pt1[2] - pt2[2]>>, y,
                        l * l + y * y - x * x, 2 * l * y, -1)
             ELSE IF practically_zero(10 * l)
             THEN <<pt1[1] - x, pt1[2]>>
             ELSE pivot(pt1, <<pt2[1] - pt1[1], pt2[2] - pt1[2]>>, x,
                        l * l + x * x - y * y, 2 * l * x, 1)

\* triangulate with the rotation at pt1 turned the other way.
triangulate_mirrored(pt1, pt2, x, y) ==
    IF IsNaN(pt1) \/ IsNaN(pt2) THEN NaN2
    ELSE LET l == distance2(pt1, pt2)
         IN  IF practically_zero(10 * l)
             THEN <<pt1[1] - x, pt1[2]>>
             ELSE IF practically_zero(x)
             THEN pivot(pt2, <<pt1[1] - pt2[1], pt1[2] - pt2[2]>>, y,
                        l * l + y * y - x * x, 2 * l * y, -1)
             ELSE pivot(pt1, <<pt2[1] - pt1[1], pt2[2] - pt1[2]>>, x,
                        l * l + x * x - y * y, 2 * l * x, -1)

\* triangulate: the third point of the triangle on pt1 and pt2 with edges
\* x (from pt1) and y (from pt2).  A NaN pivot gives a NaN distance, which
\* fails both practically_zero tests and makes the result NaN.
triangulate(pt1, pt2, x, y) ==
    IF IsNaN(pt1) \/ IsNaN(pt2) THEN NaN2
    ELSE LET l == distance2(pt1, pt2)
         IN  IF practically_zero(10 * l)
             THEN <<pt1[1] - x, pt1[2]>>
             ELSE IF practically_zero(x)
             THEN pivot(pt2, <<pt1[1] - pt2[1], pt1[2] - pt2[2]>>, y,
                        l * l + y * y - x * x, 2 * l * y, -1)
             ELSE pivot(pt1, <<pt2[1] - pt1[1], pt2[2] - pt1[2]>>, x,
                        l * l + x * x - y * y, 2 * l * x, 1)

\* ------------------------------------------------------------------------
\* plank.rs: Plank and FlattenedPlank.

\* Plank::new.  The fields are built in the order resolution, bottom_line,
\* top_line, and the first Spline::new that fails ends the construction.
Plank_new(bot_line, top_line, resolution) ==
    Bind(Spline_new(bot_line, resolution), LAMBDA bottom :
    Bind(Spline_new(top_line, resolution), LAMBDA top :
        LET failed == IF bottom.status # "Ok" THEN bottom.status ELSE top.status
        IN  IF failed # "Ok"
            THEN [status |-> failed, top_line |-> <<>>, bottom_line |-> <<>>,
                  resolution |-> 0]
            ELSE [status |-> "Ok", top_line |-> top.points,
                  bottom_line |-> bottom.points,
                  resolution |->
                    ((Len(bot_line) + Len(top_line)) \div 2) * resolution]))

\* Plank::triangles stopping one column short of the right edge.
Plank_triangles_short(plank) ==
    Bind(Spline_sample(plank.top_line, plank.resolution), LAMBDA top_pts :
    Bind(Spline_sample(plank.bottom_line, plank.resolution), LAMBDA bot_pts :
        IF Len(top_pts) # Len(bot_pts)
        THEN [status |-> "Panic", left_len |-> 0, triangles |-> <<>>]
        ELSE [status |-> "Ok",
              left_len |-> distance3(top_pts[1], bot_pts[1]),
              triangles |->
                [i \in 1..(Len(top_pts) - 2) |->
                    <<distance3(top_pts[i], top_pts[i + 1]),
                      distance3(bot_pts[i], top_pts[i + 1]),
                      distance3(top_pts[i + 1], bot_pts[i + 1]),
                      distance3(bot_pts[i], bot_pts[i + 1])>>]]))

\* Plank::triangles giving every length twice as long.
Plank_triangles_doubled(plank) ==
    Bind(Spline_sample(plank.top_line, plank.resolution), LAMBDA top_pts :
    Bind(Spline_sample(plank.bottom_line, plank.resolution), LAMBDA bot_pts :
        IF Len(top_pts) # Len(bot_pts)
        THEN [status |-> "Panic", left_len |-> 0, triangles |-> <<>>]
        ELSE [status |-> "Ok",
              left_len |-> 2 * distance3(top_pts[1], bot_pts[1]),
              triangles |->
                [i \in 1..(Len(top_pts) - 1) |->
                    <<2 * distance3(top_pts[i], top_pts[i + 1]),
                      2 * distance3(bot_pts[i], top_pts[i + 1]),
                      2 * distance3(top_pts[i + 1], bot_pts[i + 1]),
                      2 * distance3(bot_pts[i], bot_pts[i + 1])>>]]))

\* Plank::triangles on the cached polylines of the boundaries
\* (sample(None)) instead of resampling them.
Plank_triangles_cached(plank) ==
    Bind(plank.top_line, LAMBDA top_pts :
    Bind(plank.bottom_line, LAMBDA bot_pts :
        IF Len(top_pts) # Len(bot_pts)
        THEN [status |-> "Panic", left_len |-> 0, triangles |-> <<>>]
        ELSE [status |-> "Ok",
              left_len |-> distance3(top_pts[1], bot_pts[1]),
              triangles |->
                [i \in 1..(Len(top_pts) - 1) |->
                    <<distance3(top_pts[i], top_pts[i + 1]),
                      distance3(bot_pts[i], top_pts[i + 1]),
                      distance3(top_pts[i + 1], bot_pts[i + 1]),
                      distance3(bot_pts[i], bot_pts[i + 1])>>]]))

\* Plank::triangles: the left edge length and, for each i, the four edge
\* lengths (a, b, c, d) of the two triangles between columns i and i + 1.
Plank_triangles(plank) ==
    Bind(Spline_sample(plank.top_line, plank.resolution), LAMBDA top_pts :
    Bind(Spline_sample(plank.bottom_line, plank.resolution), LAMBDA bot_pts :
        IF Len(top_pts) # Len(bot_pts)
        THEN [status |-> "Panic", left_len |-> 0, triangles |-> <<>>]
        ELSE [status |-> "Ok",
              left_len |-> distance3(top_pts[1], bot_pts[1]),
              triangles |->
                [i \in 1..(Len(top_pts) - 1) |->
                    <<distance3(top_pts[i], top_pts[i + 1]),
                      distance3(bot_pts[i], top_pts[i + 1]),
                      distance3(top_pts[i + 1], bot_pts[i + 1]),
                      distance3(bot_pts[i], bot_pts[i + 1])>>]]))

\* The loop of Plank::flatten placing the next top point from the bottom
\* point with the second length and the top point with the first.
RECURSIVE flatten_from_folded(_, _, _, _, _)
flatten_from_folded(triangles, k, top_line, bottom_line, pts) ==
    IF k > Len(triangles)
    THEN [status |-> "Ok", top_line |-> top_line, bottom_line |-> bottom_line]
    ELSE LET tri == triangles[k]
         IN  Bind(triangulate(pts[2], pts[1], tri[2], tri[1]), LAMBDA new_top_pt :
             Bind(triangulate(new_top_pt, pts[2], tri[3], tri[4]), LAMBDA new_bot_pt :
                 flatten_from_folded(triangles, k + 1, Append(top_line, new_top_pt),
                              Append(bottom_line, new_bot_pt),
                              <<new_top_pt, new_bot_pt>>)))

\* The loop of Plank::flatten from triangle k on.
RECURSIVE flatten_from(_, _, _, _, _)
flatten_from(triangles, k, top_line, bottom_line, pts) ==
    IF k > Len(triangles)
    THEN [status |-> "Ok", top_line |-> top_line, bottom_line |-> bottom_line]
    ELSE LET tri == triangles[k]
         IN  Bind(triangulate(pts[1], pts[2], tri[1], tri[2]), LAMBDA new_top_pt :
             Bind(triangulate(new_top_pt, pts[2], tri[3], tri[4]), LAMBDA new_bot_pt :
                 flatten_from(triangles, k + 1, Append(top_line, new_top_pt),
                              Append(bottom_line, new_bot_pt),
                              <<new_top_pt, new_bot_pt>>)))

\* Plank::flatten
Plank_flatten(plank) ==
    Bind(Plank_triangles(plank), LAMBDA t :
        LET top_pt == <<0, 0>>
            bot_pt == <<0, t.left_len>>
        IN  IF t.status # "Ok"
            THEN [status |-> t.status, top_line |-> <<>>, bottom_line |-> <<>>]
            ELSE flatten_from(t.triangles, 1, <<top_pt>>, <<bot_pt>>,
                              <<top_pt, bot_pt>>))

Reverse(s) == [k \in 1..Len(s) |-> s[Len(s) + 1 - k]]

\* get_outline without the final push of the first top point.
get_outline_open(fp) ==
    fp.top_line \o Reverse(fp.bottom_line)

\* FlattenedPlank::get_outline (plank.rs)
get_outline(fp) ==
    fp.top_line \o Reverse(fp.bottom_line) \o <<fp.top_line[1]>>

\* FlattenedPlank::get_path (hull.rs)
get_path(fp) ==
    fp.top_line \o Reverse(fp.bottom_line) \o <<fp.top_line[1]>>

\* FlattenedPlank::orient_horizontally: turn the plank about its first top
\* point so that its last top point lies in direction (1, 0) from it.
\* Rotation2::rotation_between is the identity for a zero vector.
orient_horizontally(fp) ==
    LET left == fp.top_line[1]
        right == Last(fp.top_line)
        v == <<right[1] - left[1], right[2] - left[2]>>
        n == normalize(v)
        turn(pt) ==
            IF v = <<0, 0>> THEN pt
            ELSE LET r == Rotate(n[1], -n[2], <<pt[1] - left[1], pt[2] - left[2]>>)
                 IN  <<left[1] + r[1], left[2] + r[2]>>
    IN  [top_line |-> [k \in 1..Len(fp.top_line) |-> turn(fp.top_line[k])],
         bottom_line |-> [k \in 1..Len(fp.bottom_line) |-> turn(fp.bottom_line[k])]]

\* shift_up moving the plank along x instead of y.
shift_up_sideways(fp, dist) ==
    [top_line |-> [k \in 1..Len(fp.top_line) |->
                      <<fp.top_line[k][1] + dist, fp.top_line[k][2]>>],
     bottom_line |-> [k \in 1..Len(fp.bottom_line) |->
                      <<fp.bottom_line[k][1] + dist, fp.bottom_line[k][2]>>]]

\* FlattenedPlank::shift_up
shift_up(fp, dist) ==
    [top_line |-> [k \in 1..Len(fp.top_line) |->
                      <<fp.top_line[k][1], fp.top_line[k][2] + dist>>],
     bottom_line |-> [k \in 1..Len(fp.bottom_line) |->
                      <<fp.bottom_line[k][1], fp.bottom_line[k][2] + dist>>]]

\* The y coordinates of all the points of a FlattenedPlank.
Ys(fp) ==
    {fp.top_line[k][2] : k \in 1..Len(fp.top_line)}
    \cup {fp.bottom_line[k][2] : k \in 1..Len(fp.bottom_line)}

\* The derived MinMaxCoord of FlattenedPlank, on Axis::Y.
min_coord(fp) == CHOOSE y \in Ys(fp) : \A z \in Ys(fp) : y <= z
max_coord(fp) == CHOOSE y \in Ys(fp) : \A z \in Ys(fp) : y >= z

\* util::EQUALITY_THRESHOLD: 0.05 feet.
EQUALITY_THRESHOLD == FP \div 20

\* The layout loop shared by flatten_planks and get_flattened_planks, on
\* the planks from k on: orient, shift above last_y (has_last says whether
\* there is one) and remember the new top.
RECURSIVE lay_from(_, _, _, _)
lay_from(flattened, k, has_last, last_y) ==
    IF k > Len(flattened) THEN <<>>
    ELSE Bind(orient_horizontally(flattened[k]), LAMBDA oriented :
         Bind(IF has_last
              THEN shift_up(oriented,
                            last_y - min_coord(oriented)
                            + 2 * EQUALITY_THRESHOLD)
              ELSE oriented, LAMBDA plank :
             <<plank>> \o lay_from(flattened, k + 1, TRUE, max_coord(plank))))

\* The first status other than "Ok" among the results, or "Ok".
RECURSIVE first_failure(_, _)
first_failure(results, k) ==
    IF k > Len(results) THEN "Ok"
    ELSE IF results[k].status # "Ok" THEN results[k].status
    ELSE first_failure(results, k + 1)

\* FlattenedPlank::flatten_planks (plank.rs): flatten and lay out each
\* plank in turn.  Plank::flatten reads nothing of the layout, so a failing
\* flatten ends the loop with the same result wherever it is met.
flatten_planks(planks) ==
    Bind([k \in 1..Len(planks) |-> Plank_flatten(planks[k])], LAMBDA results :
        LET failed == first_failure(results, 1)
        IN  IF failed # "Ok" THEN [status |-> failed, planks |-> <<>>]
            ELSE [status |-> "Ok",
                  planks |-> lay_from([k \in 1..Len(results) |->
                                          [top_line |-> results[k].top_line,
                                           bottom_line |-> results[k].bottom_line]],
                                      1, FALSE, 0)])

\* ------------------------------------------------------------------------
\* hull.rs

\* Station::new
Station_new(name, points, resolution) ==
    Bind(Spline_new(points, resolution), LAMBDA spline :
        [status |-> spline.status, name |-> name,
         points |-> IF spline.status = "Ok" THEN points ELSE <<>>,
         spline |-> spline.points])

\* Station::at_t
Station_at_t(station, t) == Spline_at_t(station.spline, t)

\* Hull::get_line: the Spline through the points at fraction t of every
\* station, in the order of the station list.
get_line(hull, t) ==
    Bind([k \in 1..Len(hull.stations) |->
             Station_at_t(hull.stations[k], t).point], LAMBDA points :
        Spline_new(points, hull.resolution))

\* get_station returning the last station of that name.
get_station_last(hull, station_name) ==
    LET found == {k \in 1..Len(hull.stations) :
                     hull.stations[k].name = station_name}
    IN  IF found = {} THEN [status |-> "Err", station |-> <<>>]
        ELSE [status |-> "Ok",
              station |-> hull.stations[CHOOSE k \in found :
                                           \A j \in found : k >= j]]

\* Hull::get_station: the first station of that name.
get_station(hull, station_name) ==
    LET found == {k \in 1..Len(hull.stations) :
                     hull.stations[k].name = station_name}
    IN  IF found = {} THEN [status |-> "Err", station |-> <<>>]
        ELSE [status |-> "Ok",
              station |-> hull.stations[CHOOSE k \in found :
                                           \A j \in found : k <= j]]

\* The loop of Hull::hallucinate_station from fraction i / 10 on: the
\* points collected, or the first failure (of get_line or of at_x).
RECURSIVE hallucinate_from(_, _, _, _)
hallucinate_from(hull, posn, i, points) ==
    IF i > 10 THEN [status |-> "Ok", points |-> points]
    ELSE Bind(get_line(hull, Div(i * FP, 10)), LAMBDA line :
             IF line.status # "Ok"
             THEN [status |-> line.status, points |-> <<>>]
             ELSE Bind(Spline_at_x(line.points, posn), LAMBDA at :
                      IF at.status # "Ok"
                      THEN [status |-> at.status, points |-> <<>>]
                      ELSE hallucinate_from(hull, posn, i + 1,
                                            Append(points, at.point))))

\* Hull::hallucinate_station: the station is named after its position.
hallucinate_station(hull, posn) ==
    Bind(hallucinate_from(hull, posn, 0, <<>>), LAMBDA collected :
        IF collected.status # "Ok"
        THEN [status |-> collected.status, name |-> posn, points |-> <<>>,
              spline |-> <<>>]
        ELSE Station_new(posn, collected.points, hull.resolution))

\* Hull::get_point
get_point(hull, t, station) ==
    IF station.kind = "Station"
    THEN Bind(get_station(hull, station.name), LAMBDA got :
             IF got.status # "Ok" THEN [status |-> got.status, point |-> <<>>]
             ELSE [status |-> "Ok", point |-> Station_at_t(got.station, t).point])
    ELSE Bind(hallucinate_station(hull, station.posn), LAMBDA made :
             IF made.status # "Ok" THEN [status |-> made.status, point |-> <<>>]
             ELSE [status |-> "Ok", point |-> Station_at_t(made, t).point])

\* The inner loop of Hull::get_planks from column j on: the points of the
\* bottom and of the top boundary, a cell at a time, bottom first.
RECURSIVE boundary_from(_, _, _, _, _, _)
boundary_from(hull, bot_locs, top_locs, j, bot_line, top_line) ==
    IF j > Len(hull.planks.stations)
    THEN [status |-> "Ok", bot_line |-> bot_line, top_line |-> top_line]
    ELSE LET station == hull.planks.stations[j]
         IN  Bind(IF bot_locs[j].some
                  THEN get_point(hull, bot_locs[j].f, station)
                  ELSE [status |-> "Ok", point |-> <<>>], LAMBDA bot :
             Bind(IF top_locs[j].some
                  THEN get_point(hull, top_locs[j].f, station)
                  ELSE [status |-> "Ok", point |-> <<>>], LAMBDA top :
             IF bot.status # "Ok"
             THEN [status |-> bot.status, bot_line |-> <<>>, top_line |-> <<>>]
             ELSE IF top.status # "Ok"
             THEN [status |-> top.status, bot_line |-> <<>>, top_line |-> <<>>]
             ELSE boundary_from(hull, bot_locs, top_locs, j + 1,
                    IF bot_locs[j].some THEN Append(bot_line, bot.point)
                    ELSE bot_line,
                    IF top_locs[j].some THEN Append(top_line, top.point)
                    ELSE top_line)))

\* The Plank that Hull::get_planks builds from the rows bot_row and
\* top_row (1-based) of the plank table.
plank_of_rows(hull, bot_row, top_row) ==
    Bind(boundary_from(hull, hull.planks.plank_locations[bot_row],
                       hull.planks.plank_locations[top_row],
                       1, <<>>, <<>>), LAMBDA lines :
        IF lines.status # "Ok"
        THEN [status |-> lines.status, top_line |-> <<>>, bottom_line |-> <<>>,
              resolution |-> 0]
        ELSE Plank_new(lines.bot_line, lines.top_line, hull.resolution))

\* The outer loop of get_planks pairing row i with row i + 1 instead of
\* row 2i with row 2i + 1.
RECURSIVE planks_from_overlapping(_, _, _, _)
planks_from_overlapping(hull, n, i, planks) ==
    IF i >= n THEN [status |-> "Ok", planks |-> planks]
    ELSE Bind(plank_of_rows(hull, i + 1, i + 2), LAMBDA plank :
             IF plank.status # "Ok"
             THEN [status |-> plank.status, planks |-> <<>>]
             ELSE planks_from_overlapping(hull, n, i + 1, Append(planks, plank)))

\* The outer loop of Hull::get_planks from plank i (0-based) on.
RECURSIVE planks_from(_, _, _, _)
planks_from(hull, n, i, planks) ==
    IF i >= n THEN [status |-> "Ok", planks |-> planks]
    ELSE Bind(plank_of_rows(hull, 2 * i + 1, 2 * i + 2), LAMBDA plank :
             IF plank.status # "Ok"
             THEN [status |-> plank.status, planks |-> <<>>]
             ELSE planks_from(hull, n, i + 1, Append(planks, plank)))

\* Hull::get_planks
get_planks(hull) ==
    planks_from(hull, Len(hull.planks.plank_locations) \div 2, 0, <<>>)

\* Hull::get_flattened_planks: get the planks, flatten them all, lay them
\* out.
get_flattened_planks(hull) ==
    Bind(get_planks(hull), LAMBDA got :
    Bind([k \in 1..Len(got.planks) |-> Plank_flatten(got.planks[k])],
         LAMBDA results :
        LET failed == IF got.status # "Ok" THEN got.status
                      ELSE first_failure(results, 1)
        IN  IF failed # "Ok" THEN [status |-> failed, planks |-> <<>>]
            ELSE [status |-> "Ok",
                  planks |-> lay_from([k \in 1..Len(results) |->
                                          [top_line |-> results[k].top_line,
                                           bottom_line |-> results[k].bottom_line]],
                                      1, FALSE, 0)]))

\* ------------------------------------------------------------------------
\* unit.rs, spec.rs and Spec::get_hull (hull.rs).

\* A text is the sequence of its characters.  u32 is modelled with the
\* largest value MaxU32.
Digits == <<"0", "1", "2", "3", "4", "5", "6", "7", "8", "9">>
IsDigit(c) == \E i \in 1..10 : Digits[i] = c
digit(c) == (CHOOSE i \in 1..10 : Digits[i] = c) - 1

\* The decimal digits "{}" prints for an unsigned integer.
RECURSIVE to_string(_)
to_string(n) ==
    IF n < 10 THEN <<Digits[n + 1]>>
    ELSE Append(to_string(n \div 10), Digits[(n % 10) + 1])

\* Debug printing that leaves out the eighths.
Feet_debug_short(x) == to_string(x.feet) \o <<"-">> \o to_string(x.inches)

\* impl fmt::Debug for Feet: "{}-{}-{}"
Feet_debug(x) ==
    to_string(x.feet) \o <<"-">> \o to_string(x.inches) \o <<"-">>
    \o to_string(x.eighths)

\* text.split(sep).collect(): the parts between the separators, empty
\* parts included.
RECURSIVE split(_, _)
split(text, sep) ==
    LET at == {k \in 1..Len(text) : text[k] = sep}
        first == CHOOSE k \in at : \A j \in at : k <= j
    IN  IF at = {} THEN <<text>>
        ELSE <<SubSeq(text, 1, first - 1)>>
             \o split(SubSeq(text, first + 1, Len(text)), sep)

\* The loop of u32::from_str over the digits, with its overflow check.
RECURSIVE digits_from(_, _, _)
digits_from(text, k, n) ==
    IF k > Len(text) THEN [status |-> "Ok", n |-> n]
    ELSE IF ~IsDigit(text[k]) THEN [status |-> "Err", n |-> 0]
    ELSE IF n * 10 + digit(text[k]) > MaxU32 THEN [status |-> "Err", n |-> 0]
    ELSE digits_from(text, k + 1, n * 10 + digit(text[k]))

\* u32::from_str: digits after an optional "+"; no digits, any other
\* character and a value over the largest u32 are errors.
u32_from_str(text) ==
    LET digits == IF text # <<>> /\ text[1] = "+" THEN Tail(text) ELSE text
    IN  IF digits = <<>> THEN [status |-> "Err", n |-> 0]
        ELSE digits_from(digits, 1, 0)

\* Feet::parse_opt: None for "x", otherwise the three numbers between
\* the dashes.
Feet_parse_opt(text) ==
    IF text = <<"x">> THEN [status |-> "Ok", some |-> FALSE, feet |-> <<>>]
    ELSE LET parts == split(text, "-")
             failed == [status |-> "Err", some |-> FALSE, feet |-> <<>>]
         IN  IF Len(parts) # 3 THEN failed
             ELSE LET feet == u32_from_str(parts[1])
                      inches == u32_from_str(parts[2])
                      eighths == u32_from_str(parts[3])
                  IN  IF feet.status # "Ok" \/ inches.status # "Ok"
                         \/ eighths.status # "Ok"
                      THEN failed
                      ELSE [status |-> "Ok", some |-> TRUE,
                            feet |-> [feet |-> feet.n, inches |-> inches.n,
                                      eighths |-> eighths.n]]

\* Feet::parse: a measurement that cannot be omitted.
Feet_parse(text) ==
    LET read == Feet_parse_opt(text)
    IN  IF read.status = "Ok" /\ read.some
        THEN [status |-> "Ok", feet |-> read.feet]
        ELSE [status |-> "Err", feet |-> <<>>]

\* Feet as f32: feet + inches / 12 + eighths / 12 / 8.
Feet_into(m) ==
    m.feet * FP + Div(m.inches * FP, 12) + Div(Div(m.eighths * FP, 12), 8)

\* hull.rs point(x, y, z)
Spec_point(x, y, z) == <<Feet_into(x), Feet_into(y), Feet_into(z)>>

\* The rows (0-based position in the table, as 1-based indices) whose
\* label is the measurement and whose cell for the station is not omitted.
lookup_rows(rows, station_index, measurement) ==
    {k \in 1..Len(rows) :
        /\ rows[k][1] = measurement
        /\ rows[k][2][station_index].some}

\* lookup that takes the first row of that label, omitted cell or not.
lookup_first_row(rows, station_index, measurement) ==
    LET labelled == {k \in 1..Len(rows) : rows[k][1] = measurement}
        first == CHOOSE k \in labelled : \A j \in labelled : k <= j
    IN  IF labelled = {} THEN [status |-> "Err", m |-> <<>>]
        ELSE [status |-> "Ok", m |-> rows[first][2][station_index].m]

\* Spec::lookup: the cell for the station in the first row of that label
\* in which it is not omitted; an error when there is none.
lookup(rows, station_index, measurement) ==
    LET found == lookup_rows(rows, station_index, measurement)
        first == CHOOSE k \in found : \A j \in found : k <= j
    IN  IF found = {} THEN [status |-> "Err", m |-> <<>>]
        ELSE [status |-> "Ok", m |-> rows[first][2][station_index].m]

\* The labels of the rows: HeightLine::Sheer and BreadthLine::Sheer,
\* BreadthLine::Wale, BreadthLine::ButOut(breadth), HeightLine::WLUp(height).
Zero == [feet |-> 0, inches |-> 0, eighths |-> 0]
Sheer == [kind |-> "Sheer", arg |-> Zero]
Wale == [kind |-> "Wale", arg |-> Zero]
ButOut(breadth) == [kind |-> "ButOut", arg |-> breadth]
WLUp(height) == [kind |-> "WLUp", arg |-> height]

\* The loop of get_hull over data.heights, from row k on, for station i:
\* the points and the wale with what the rows add.
RECURSIVE heights_from(_, _, _, _, _)
heights_from(data, i, k, points, wale) ==
    IF k > Len(data.heights)
    THEN [status |-> "Ok", points |-> points, wale |-> wale]
    ELSE LET breadth == data.heights[k][1]
             cell == data.heights[k][2][i]
         IN  IF ~cell.some
             THEN heights_from(data, i, k + 1, points, wale)
             ELSE Bind(lookup(data.positions, i, Sheer), LAMBDA posn :
                  IF posn.status # "Ok"
                  THEN [status |-> "Err", points |-> <<>>, wale |-> <<>>]
                  ELSE heights_from(data, i, k + 1,
                         IF breadth.kind = "ButOut"
                         THEN Append(points, Spec_point(posn.m, breadth.arg, cell.m))
                         ELSE points,
                         IF breadth.kind = "Wale"
                         THEN Append(wale, <<Feet_into(posn.m), Feet_into(cell.m)>>)
                         ELSE wale))

\* The loop of get_hull over data.breadths, from row k on, for station i.
RECURSIVE breadths_from(_, _, _, _)
breadths_from(data, i, k, points) ==
    IF k > Len(data.breadths) THEN [status |-> "Ok", points |-> points]
    ELSE LET height == data.breadths[k][1]
             cell == data.breadths[k][2][i]
         IN  IF ~cell.some
             THEN breadths_from(data, i, k + 1, points)
             ELSE Bind(lookup(data.positions, i, height), LAMBDA posn :
                  IF posn.status # "Ok"
                  THEN [status |-> "Err", points |-> <<>>]
                  ELSE breadths_from(data, i, k + 1,
                         IF height.kind = "WLUp"
                         THEN Append(points, Spec_point(posn.m, cell.m, height.arg))
                         ELSE points))

\* The place of a point in a list sorted by z: after every point whose z
\* is not greater (the sort is stable).
RECURSIVE insert_by_z(_, _)
insert_by_z(sorted, pt) ==
    IF sorted = <<>> THEN <<pt>>
    ELSE IF Last(sorted)[3] <= pt[3] THEN Append(sorted, pt)
    ELSE Append(insert_by_z(SubSeq(sorted, 1, Len(sorted) - 1), pt),
                Last(sorted))

\* points.sort_by(|p, q| p.z.partial_cmp(&q.z).unwrap())
RECURSIVE sort_by_z(_)
sort_by_z(points) ==
    IF points = <<>> THEN <<>>
    ELSE insert_by_z(sort_by_z(SubSeq(points, 1, Len(points) - 1)),
                     Last(points))

\* The loop of remove_duplicates from point k on.
RECURSIVE good_points_from(_, _, _)
good_points_from(points, k, good_points) ==
    IF k > Len(points) THEN good_points
    ELSE good_points_from(points, k + 1,
            IF distance3(points[k], points[k - 1]) >= EQUALITY_THRESHOLD
            THEN Append(good_points, points[k])
            ELSE good_points)

\* util::remove_duplicates, on a list that is not empty.
remove_duplicates(points) == good_points_from(points, 2, <<points[1]>>)

\* The body of the loop of get_hull for station i (1-based): the Station,
\* the wale with what the station adds, or the first error.
station_of(spec, i, wale) ==
    LET data == spec.data
        failed == [status |-> "Err", station |-> <<>>, wale |-> <<>>]
    IN  Bind(lookup(data.breadths, i, Sheer), LAMBDA sheer_breadth :
        Bind(lookup(data.heights, i, Sheer), LAMBDA sheer_height :
        Bind(lookup(data.positions, i, Sheer), LAMBDA sheer_posn :
        IF sheer_breadth.status # "Ok" \/ sheer_height.status # "Ok"
           \/ sheer_posn.status # "Ok"
        THEN failed
        ELSE Bind(heights_from(data, i, 1,
                     <<Spec_point(sheer_posn.m, sheer_breadth.m, sheer_height.m)>>,
                     wale), LAMBDA hs :
             IF hs.status # "Ok" THEN failed
             ELSE Bind(breadths_from(data, i, 1, hs.points), LAMBDA bs :
                  IF bs.status # "Ok" THEN failed
                  ELSE Bind(Station_new(data.stations[i],
                                        remove_duplicates(sort_by_z(bs.points)),
                                        spec.config.resolution), LAMBDA station :
                       IF station.status # "Ok"
                       THEN [failed EXCEPT !.status = station.status]
                       ELSE [status |-> "Ok", station |-> station,
                             wale |-> hs.wale]))))))

\* The loop of get_hull from station i on.
RECURSIVE stations_from(_, _, _, _)
stations_from(spec, i, stations, wale) ==
    IF i > Len(spec.data.stations)
    THEN [status |-> "Ok", stations |-> stations, wale |-> wale]
    ELSE Bind(station_of(spec, i, wale), LAMBDA made :
         IF made.status # "Ok"
         THEN [status |-> made.status, stations |-> <<>>, wale |-> <<>>]
         ELSE stations_from(spec, i + 1, Append(stations, made.station),
                            made.wale))

\* The arguments of the rows of a kind, as f32, in row order.
RECURSIVE stored(_, _, _)
stored(rows, kind, k) ==
    IF k > Len(rows) THEN <<>>
    ELSE (IF rows[k][1].kind = kind THEN <<Feet_into(rows[k][1].arg)>>
          ELSE <<>>) \o stored(rows, kind, k + 1)

\* Spec::get_breadths and Spec::get_heights
get_breadths(spec) == stored(spec.data.heights, "ButOut", 1)
get_heights(spec) == stored(spec.data.breadths, "WLUp", 1)

\* Spec::get_hull: the Hull, or the first error and no Hull.
get_hull(spec) ==
    Bind(stations_from(spec, 1, <<>>, <<>>), LAMBDA made :
        IF made.status # "Ok" THEN [status |-> made.status, hull |-> <<>>]
        ELSE [status |-> "Ok",
              hull |-> [stations |-> made.stations,
                        breadths |-> get_breadths(spec),
                        heights |-> get_heights(spec),
                        wale |-> made.wale,
                        planks |-> spec.planks,
                        resolution |-> spec.config.resolution]])

\* ------------------------------------------------------------------------
\* load.rs: the plank table.

\* The value of the digits text[k..], after the value n of those before.
RECURSIVE decimal_from(_, _, _)
decimal_from(text, k, n) ==
    IF k > Len(text) THEN n
    ELSE decimal_from(text, k + 1, n * 10 + digit(text[k]))

RECURSIVE pow10(_)
pow10(n) == IF n = 0 THEN 1 ELSE 10 * pow10(n - 1)

\* f32::from_str on texts without an exponent: an optional sign, then
\* "NaN", "inf", or digits with an optional point among them, rounded to
\* the nearest value there is.
f32_from_str(text) ==
    LET failed == [status |-> "Err", kind |-> "", v |-> 0]
        signed == text # <<>> /\ text[1] \in {"+", "-"}
        sign == IF text # <<>> /\ text[1] = "-" THEN -1 ELSE 1
        body == IF signed THEN Tail(text) ELSE text
        parts == split(body, ".")
        whole == parts[1]
        fraction == IF Len(parts) = 2 THEN parts[2] ELSE <<>>
        digits == whole \o fraction
    IN  IF body = <<"N", "a", "N">>
        THEN [status |-> "Ok", kind |-> "nan", v |-> 0]
        ELSE IF body = <<"i", "n", "f">>
        THEN [status |-> "Ok", kind |-> "inf", v |-> sign]
        ELSE IF \/ Len(parts) > 2
                \/ digits = <<>>
                \/ \E k \in 1..Len(digits) : ~IsDigit(digits[k])
        THEN failed
        ELSE [status |-> "Ok", kind |-> "num",
              v |-> sign * (decimal_from(whole, 1, 0) * FP
                            + Div(decimal_from(fraction, 1, 0) * FP,
                                  pow10(Len(fraction))))]

\* The cell read without the upper end of the range.
read_plank_curve_fraction_above(text) ==
    IF text = <<"x">> THEN [status |-> "Ok", cell |-> [some |-> FALSE, f |-> 0]]
    ELSE LET frac == f32_from_str(text)
         IN  IF frac.status = "Ok" /\ frac.kind # "nan"
                /\ (frac.kind = "inf" => frac.v > 0)
                /\ (frac.kind = "num" => frac.v >= 0)
             THEN [status |-> "Ok", cell |-> [some |-> TRUE, f |-> frac.v]]
             ELSE [status |-> "Err", cell |-> <<>>]

\* Planks::read_plank_curve_fraction: None for "x", a fraction with
\* frac >= 0.0 && frac <= 1.0, or an error.
read_plank_curve_fraction(text) ==
    IF text = <<"x">> THEN [status |-> "Ok", cell |-> [some |-> FALSE, f |-> 0]]
    ELSE LET frac == f32_from_str(text)
         IN  IF frac.status = "Ok" /\ frac.kind = "num"
                /\ frac.v >= 0 /\ frac.v <= FP
             THEN [status |-> "Ok", cell |-> [some |-> TRUE, f |-> frac.v]]
             ELSE [status |-> "Err", cell |-> <<>>]

\* Planks::read_plank_station: a position where the text is a
\* measurement, the station of that name otherwise.
read_plank_station(text) ==
    LET feet == Feet_parse(text)
    IN  IF feet.status = "Ok"
        THEN [kind |-> "Position", name |-> "", posn |-> Feet_into(feet.feet)]
        ELSE [kind |-> "Station", name |-> text, posn |-> 0]

\* The cells of a row after the first, read, up to the first error.
RECURSIVE plank_from(_, _, _)
plank_from(row, k, plank) ==
    IF k > Len(row) THEN [status |-> "Ok", plank |-> plank]
    ELSE LET read == read_plank_curve_fraction(row[k])
         IN  IF read.status # "Ok" THEN [status |-> "Err", plank |-> <<>>]
             ELSE plank_from(row, k + 1, Append(plank, read.cell))

\* The records of the file from record k on, read, up to the first error.
RECURSIVE records_from(_, _, _)
records_from(records, k, planks) ==
    IF k > Len(records) THEN [status |-> "Ok", planks |-> planks]
    ELSE LET read == plank_from(records[k], 2, <<>>)
         IN  IF read.status # "Ok" THEN [status |-> "Err", planks |-> <<>>]
             ELSE records_from(records, k + 1, Append(planks, read.plank))

\* Planks::load_from on a file that opens and has its header line.
Planks_load_from(file) ==
    LET stations == [j \in 1..Len(file.headers) - 1 |->
                        read_plank_station(file.headers[j + 1])]
        read == records_from(file.records, 1, <<>>)
    IN  IF read.status # "Ok" THEN [status |-> "Err", planks |-> <<>>]
        ELSE [status |-> "Ok",
              planks |-> [stations |-> stations,
                          plank_locations |-> read.planks]]

\* ------------------------------------------------------------------------
\* The state of the model.

VARIABLES
    sp_input,   \* the reference points given to Spline::new
    sp_res,     \* the resolution given to Spline::new
    sp,         \* the outcome of that Spline::new
    sp_query,   \* the last query on the Spline and the walks that answered it
    tri_in,     \* the arguments of the last call of triangulate
    tri_out,    \* its result
    hull,       \* the Hull
    hl_planks,  \* the result of hull.get_planks()
    hl_flat,    \* the result of hull.get_flattened_planks()
    hl_laid,    \* the result of FlattenedPlank::flatten_planks on hl_planks
    hl_paths,   \* the paths render_2d draws for the planks of hl_flat
    hl_outlines, \* the outlines render_2d draws for the planks of hl_laid
    hl_point,   \* the last call of hull.get_point and its result
    hl_station, \* the last call of hull.hallucinate_station and its result
    bd_spec,    \* the Spec that was loaded
    bd_hull,    \* the result of bd_spec.get_hull()
    ft_x,       \* the Feet that was printed, if the text was printed
    ft_text,    \* a text: what {:?} printed for ft_x, or any text
    ft_parsed,  \* the result of Feet::parse(ft_text)
    ld_file,    \* the header and the records of a plank file
    ld_planks   \* the result of Planks::load_from on it

sp_vars == <<sp_input, sp_res, sp, sp_query>>
tri_vars == <<tri_in, tri_out>>
hull_vars == <<hull, hl_planks, hl_flat, hl_laid, hl_paths, hl_outlines>>
\* The variables of the specifications further down.
call_vars == <<hl_point, hl_station>>
build_vars == <<bd_spec, bd_hull>>
feet_vars == <<ft_x, ft_text, ft_parsed>>
load_vars == <<ld_file, ld_planks>>
later_vars == <<build_vars, feet_vars, load_vars>>
rest_vars == <<call_vars, later_vars>>
vars == <<sp_vars, tri_vars, hull_vars, rest_vars>>

NoSpline == [status |-> "None", points |-> <<>>]
NoQuery == [op |-> "none", arg |-> 0, walks |-> <<>>]
NoCall == [pt1 |-> <<>>, pt2 |-> <<>>, x |-> 0, y |-> 0]
NoPlanks == [status |-> "None", planks |-> <<>>]
NoHull == [stations |-> <<>>,
           planks |-> [stations |-> <<>>, plank_locations |-> <<>>],
           resolution |-> 0]

NoPoint == [t |-> 0, station |-> <<>>, result |-> <<>>]
NoStation == [posn |-> 0, result |-> <<>>]
NoSpec == [data |-> <<>>, planks |-> <<>>, config |-> <<>>]
NoResult == [status |-> "None"]

SplineIdle ==
    /\ sp_input = <<>>
    /\ sp_res = 1
    /\ sp = NoSpline
    /\ sp_query = NoQuery

TriIdle ==
    /\ tri_in = NoCall
    /\ tri_out = <<>>

HullIdle ==
    /\ hull = NoHull
    /\ hl_planks = NoPlanks
    /\ hl_flat = NoPlanks
    /\ hl_laid = NoPlanks
    /\ hl_paths = <<>>
    /\ hl_outlines = <<>>

CallIdle ==
    /\ hl_point = NoPoint
    /\ hl_station = NoStation

BuildIdle ==
    /\ bd_spec = NoSpec
    /\ bd_hull = NoResult

FeetIdle ==
    /\ ft_x = <<>>
    /\ ft_text = <<>>
    /\ ft_parsed = NoResult

NoFile == [headers |-> <<>>, records |-> <<>>]

LoadIdle ==
    /\ ld_file = NoFile
    /\ ld_planks = NoResult

LaterIdle == BuildIdle /\ FeetIdle /\ LoadIdle

RestIdle == CallIdle /\ LaterIdle

\* ------------------------------------------------------------------------
\* Spec: one Spline, built once and then queried.

\* Reference points: two that differ only in the fore-aft coordinate x,
\* and two more off that line.
Points == {<<0, 0, 0>>, <<FP, 0, 0>>, <<FP, FP, 0>>, <<2 * FP, FP, FP>>}

RECURSIVE SeqsOf(_, _)
SeqsOf(S, n) ==
    IF n = 0 THEN {<<>>}
    ELSE LET shorter == SeqsOf(S, n - 1)
         IN  shorter \cup {Append(s, x) : s \in {r \in shorter : Len(r) = n - 1}, x \in S}

Inputs == SeqsOf(Points, MaxLen)

Fractions == {Div(i * FP, TDen) : i \in 0..TDen}

Init == SplineIdle /\ TriIdle /\ HullIdle /\ RestIdle

\* Spline::new(ref_points, resolution).  A Spline is built once and is
\* read-only afterwards.
New ==
    /\ sp.status = "None"
    /\ \E input \in Inputs, resolution \in 1..MaxRes :
        /\ sp_input' = input
        /\ sp_res' = resolution
        /\ sp' = Spline_new(input, resolution)
        /\ sp_query' = NoQuery
    /\ UNCHANGED <<tri_vars, hull_vars, rest_vars>>

\* spline.at_len(d), at the start, at the total length and past it
AtLen ==
    /\ sp.status = "Ok"
    /\ sp_query = NoQuery
    /\ \E d \in {0, Spline_length(sp.points), Spline_length(sp.points) + 1} :
        /\ sp_query' = [op |-> "at_len", arg |-> d,
                        walks |-> <<Spline_at_len(sp.points, d)>>]
    /\ UNCHANGED <<sp_input, sp_res, sp, tri_vars, hull_vars, rest_vars>>

\* spline.at_t(t)
AtT ==
    /\ sp.status = "Ok"
    /\ sp_query = NoQuery
    /\ \E t \in Fractions :
        /\ sp_query' = [op |-> "at_t", arg |-> t,
                        walks |-> <<Spline_at_t(sp.points, t)>>]
    /\ UNCHANGED <<sp_input, sp_res, sp, tri_vars, hull_vars, rest_vars>>

\* spline.sample(Some(resolution))
Sample ==
    /\ sp.status = "Ok"
    /\ sp_query = NoQuery
    /\ \E resolution \in 1..TDen :
        /\ sp_query' = [op |-> "sample", arg |-> resolution,
                        walks |-> Spline_sample_walks(sp.points, resolution)]
    /\ UNCHANGED <<sp_input, sp_res, sp, tri_vars, hull_vars, rest_vars>>

\* Fore-aft positions to ask for: every quarter foot up to two feet, and
\* one unit past each.
Positions ==
    {Div(i * FP, TDen) + more : i \in 0..(2 * TDen), more \in {0, 1}}

\* spline.at_x(desired_x)
AtX ==
    /\ sp.status = "Ok"
    /\ sp_query = NoQuery
    /\ \E desired_x \in Positions :
        /\ sp_query' = [op |-> "at_x", arg |-> desired_x,
                        walks |-> <<Spline_at_x(sp.points, desired_x)>>]
    /\ UNCHANGED <<sp_input, sp_res, sp, tri_vars, hull_vars, rest_vars>>

\* The caller drops the answer: the Spline can be queried again.
Forget ==
    /\ sp_query # NoQuery
    /\ sp_query' = NoQuery
    /\ UNCHANGED <<sp_input, sp_res, sp, tri_vars, hull_vars, rest_vars>>

Next == New \/ AtLen \/ AtT \/ Sample \/ AtX \/ Forget

Spec == Init /\ [][Next]_vars

\* ------------------------------------------------------------------------
\* SpecTri: one call of triangulate, on pivots of a grid of whole feet and
\* target distances of whole feet.

TriPoints == {<<a * FP, b * FP>> : a, b \in 0..TriCoord}
TriDistances == {a * FP : a \in 0..TriDist}

InitTri == SplineIdle /\ TriIdle /\ HullIdle /\ RestIdle

Triangulate ==
    /\ tri_in = NoCall
    /\ \E pt1, pt2 \in TriPoints, x, y \in TriDistances :
        /\ tri_in' = [pt1 |-> pt1, pt2 |-> pt2, x |-> x, y |-> y]
        /\ tri_out' = triangulate(pt1, pt2, x, y)
    /\ UNCHANGED <<sp_vars, hull_vars, rest_vars>>

NextTri == Triangulate

SpecTri == InitTri /\ [][NextTri]_vars

\* ------------------------------------------------------------------------
\* SpecHull: a Hull, immutable once built, whose planks are taken,
\* flattened and laid out.

\* n tenths of a foot.
Tenths(n) == Div(n * FP, 10)

P3Tenths(x, y, z) == <<Tenths(x), Tenths(y), Tenths(z)>>

\* Four stations a foot apart, each with four reference points from the
\* keel up to the sheer.
StationPoints ==
    <<
      <<P3Tenths(0, 0, 0), P3Tenths(0, 5, 2), P3Tenths(0, 9, 7), P3Tenths(0, 10, 13)>>,
      <<P3Tenths(10, 0, 0), P3Tenths(10, 9, 2), P3Tenths(10, 14, 7), P3Tenths(10, 15, 12)>>,
      <<P3Tenths(20, 0, 0), P3Tenths(20, 8, 2), P3Tenths(20, 13, 7), P3Tenths(20, 14, 12)>>,
      <<P3Tenths(30, 0, 0), P3Tenths(30, 4, 3), P3Tenths(30, 7, 8), P3Tenths(30, 8, 14)>>
    >>

StationNames == <<"0", "1", "2", "3">>

Stations(resolution) ==
    [k \in 1..4 |-> Station_new(StationNames[k], StationPoints[k], resolution)]

NamedStation(name) == [kind |-> "Station", name |-> name, posn |-> 0]
AtPosition(posn) == [kind |-> "Position", name |-> "", posn |-> posn]

\* The columns of the plank table: the four stations, and a position
\* between stations "1" and "2".
PlankStations ==
    <<NamedStation("0"), NamedStation("1"), AtPosition(Tenths(15)),
      NamedStation("2"), NamedStation("3")>>

Omitted == [some |-> FALSE, f |-> 0]
Fraction(n, d) == [some |-> TRUE, f |-> Div(n * FP, d)]

\* Rows of the plank table: a boundary a quarter of the way up every
\* station, one three quarters up, and one half way up that omits the
\* first station.
PlankRows ==
    { [j \in 1..5 |-> Fraction(1, 4)],
      [j \in 1..5 |-> Fraction(3, 4)],
      [j \in 1..5 |-> IF j = 1 THEN Omitted ELSE Fraction(1, 2)] }

\* The plank tables: up to MaxRows rows, no row equal to the one before it.
PlankTables ==
    {rows \in SeqsOf(PlankRows, MaxRows) :
        \A k \in 2..Len(rows) : rows[k] # rows[k - 1]}

Hulls ==
    {[stations |-> Stations(resolution),
      planks |-> [stations |-> PlankStations, plank_locations |-> rows],
      resolution |-> resolution] :
        rows \in PlankTables, resolution \in {HullRes}}

InitHull ==
    /\ SplineIdle
    /\ TriIdle
    /\ RestIdle
    /\ hull \in Hulls
    /\ hl_planks = NoPlanks
    /\ hl_flat = NoPlanks
    /\ hl_laid = NoPlanks
    /\ hl_paths = <<>>
    /\ hl_outlines = <<>>

\* hull.get_planks()
GetPlanks ==
    /\ hl_planks = NoPlanks
    /\ hl_planks' = get_planks(hull)
    /\ UNCHANGED <<sp_vars, tri_vars, rest_vars, hull, hl_flat, hl_laid, hl_paths, hl_outlines>>

\* hull.get_flattened_planks()
GetFlattenedPlanks ==
    /\ hl_flat = NoPlanks
    /\ hl_flat' = get_flattened_planks(hull)
    /\ UNCHANGED <<sp_vars, tri_vars, rest_vars, hull, hl_planks, hl_laid, hl_paths, hl_outlines>>

\* FlattenedPlank::flatten_planks(planks), on the planks of the Hull
FlattenPlanks ==
    /\ hl_planks.status = "Ok"
    /\ hl_laid = NoPlanks
    /\ hl_laid' = flatten_planks(hl_planks.planks)
    /\ UNCHANGED <<sp_vars, tri_vars, rest_vars, hull, hl_planks, hl_flat, hl_paths, hl_outlines>>

\* render_2d (hull.rs) of every plank get_flattened_planks returned
RenderPaths ==
    /\ hl_flat.status = "Ok"
    /\ hl_flat.planks # <<>>
    /\ hl_paths = <<>>
    /\ hl_paths' = [k \in 1..Len(hl_flat.planks) |-> get_path(hl_flat.planks[k])]
    /\ UNCHANGED <<sp_vars, tri_vars, rest_vars, hull, hl_planks, hl_flat, hl_laid, hl_outlines>>

\* render_2d (plank.rs) of every plank flatten_planks returned
RenderOutlines ==
    /\ hl_laid.status = "Ok"
    /\ hl_laid.planks # <<>>
    /\ hl_outlines = <<>>
    /\ hl_outlines' = [k \in 1..Len(hl_laid.planks) |-> get_outline(hl_laid.planks[k])]
    /\ UNCHANGED <<sp_vars, tri_vars, rest_vars, hull, hl_planks, hl_flat, hl_laid, hl_paths>>

NextHull ==
    GetPlanks \/ GetFlattenedPlanks \/ FlattenPlanks \/ RenderPaths \/ RenderOutlines

SpecHull == InitHull /\ [][NextHull]_vars

\* ------------------------------------------------------------------------
\* SpecCalls: a Hull whose methods are called over and over, in any order.

\* Station names in which two stations are called "1" and none "2".
RepeatedNames == <<"0", "1", "1", "3">>

\* A plank table of two rows, a quarter and three quarters of the way up,
\* over the stations "0", "1", "2" and "3".
CallPlanks ==
    [stations |-> [j \in 1..4 |-> NamedStation(StationNames[j])],
     plank_locations |-> <<[j \in 1..4 |-> Fraction(1, 4)],
                           [j \in 1..4 |-> Fraction(3, 4)]>>]

\* The first count of the stations, under those names, dx further aft.
StationsOf(names, count, dx) ==
    [k \in 1..count |->
        Station_new(names[k],
                    [j \in 1..Len(StationPoints[k]) |->
                        <<StationPoints[k][j][1] + dx, StationPoints[k][j][2],
                          StationPoints[k][j][3]>>],
                    HullRes)]

\* Rows of a plank table of five columns, a quarter and three quarters of
\* the way up, with cells in the columns given only.
LowRow(given) ==
    [j \in 1..5 |-> IF j \in given THEN Fraction(1, 4) ELSE Omitted]
HighRow(given) ==
    [j \in 1..5 |-> IF j \in given THEN Fraction(3, 4) ELSE Omitted]

\* The stations "0" to "3" and one more column.
CallColumns(last) ==
    <<NamedStation("0"), NamedStation("1"), NamedStation("2"),
      NamedStation("3"), last>>

\* Plank tables of five columns.  One plank whose bottom has a cell more
\* than its top; and tables whose first plank is on the four stations and
\* whose second plank has a cell at a station that does not exist, a cell
\* at a position past the last station, a bottom of three cells, or a
\* bottom of no cell at all.
CallTables ==
    { [stations |-> CallColumns(AtPosition(Tenths(15))),
       plank_locations |-> <<LowRow(1..5), HighRow(1..4)>>],
      [stations |-> CallColumns(NamedStation("9")),
       plank_locations |->
           <<LowRow(1..4), HighRow(1..4), LowRow(1..5), HighRow(1..5)>>],
      [stations |-> CallColumns(AtPosition(Tenths(45))),
       plank_locations |->
           <<LowRow(1..4), HighRow(1..4), LowRow(1..5), HighRow(1..5)>>],
      [stations |-> CallColumns(AtPosition(Tenths(15))),
       plank_locations |->
           <<LowRow(1..4), HighRow(1..4), LowRow(2..4), HighRow(1..5)>>],
      [stations |-> CallColumns(AtPosition(Tenths(15))),
       plank_locations |->
           <<LowRow(1..4), HighRow(1..4), LowRow({}), HighRow(1..5)>>] }

\* The Hulls called.  Four stations, named apart or not, with the table
\* of two rows; with that table also the four stations a foot further
\* aft, the first three stations only, and no station; and the four
\* stations with each of the tables of five columns.
CallHulls ==
    {[stations |-> StationsOf(names, 4, 0),
      planks |-> CallPlanks,
      resolution |-> HullRes] :
        names \in {StationNames, RepeatedNames}}
    \cup
    {[stations |-> StationsOf(StationNames, some[1], some[2]),
      planks |-> CallPlanks,
      resolution |-> HullRes] :
        some \in {<<4, FP>>, <<3, 0>>, <<0, 0>>}}
    \cup
    {[stations |-> StationsOf(StationNames, 4, 0),
      planks |-> table,
      resolution |-> HullRes] :
        table \in CallTables}

\* The fractions, station descriptors and positions the calls are made
\* with.  Position 4.5 ft is past the last station of every Hull, and
\* position 0.5 ft is before the first station of the Hull that begins a
\* foot further aft.
CallFractions == {FP \div 4}
CallStations ==
    {NamedStation("1"), NamedStation("2"), AtPosition(Tenths(15)),
     AtPosition(Tenths(45))}
CallPositions == {Tenths(5), Tenths(15), Tenths(45)}

InitCalls ==
    /\ SplineIdle
    /\ TriIdle
    /\ RestIdle
    /\ hull \in CallHulls
    /\ hl_planks = NoPlanks
    /\ hl_flat = NoPlanks
    /\ hl_laid = NoPlanks
    /\ hl_paths = <<>>
    /\ hl_outlines = <<>>

\* hull.get_planks(), again
CallGetPlanks ==
    /\ hl_planks' = get_planks(hull)
    /\ UNCHANGED <<sp_vars, tri_vars, rest_vars, hull, hl_flat, hl_laid, hl_paths, hl_outlines>>

\* hull.get_flattened_planks(), again
CallGetFlattenedPlanks ==
    /\ hl_flat' = get_flattened_planks(hull)
    /\ UNCHANGED <<sp_vars, tri_vars, rest_vars, hull, hl_planks, hl_laid, hl_paths, hl_outlines>>

\* hull.get_point(t, station)
CallGetPoint ==
    /\ \E t \in CallFractions, station \in CallStations :
        hl_point' = [t |-> t, station |-> station,
                     result |-> get_point(hull, t, station)]
    /\ UNCHANGED <<sp_vars, tri_vars, hull_vars, hl_station, later_vars>>

\* hull.hallucinate_station(posn) that keeps the station it made in the
\* Hull.
CallHallucinateStation_kept ==
    /\ \E posn \in CallPositions :
        LET made == hallucinate_station(hull, posn)
        IN  /\ hl_station' = [posn |-> posn, result |-> made]
            /\ hull' = IF made.status = "Ok"
                       THEN [hull EXCEPT !.stations = Append(@, made)]
                       ELSE hull
    /\ UNCHANGED <<sp_vars, tri_vars, hl_planks, hl_flat, hl_laid, hl_paths,
                   hl_outlines, hl_point, later_vars>>

\* hull.hallucinate_station(posn)
CallHallucinateStation ==
    /\ \E posn \in CallPositions :
        hl_station' = [posn |-> posn, result |-> hallucinate_station(hull, posn)]
    /\ UNCHANGED <<sp_vars, tri_vars, hull_vars, hl_point, later_vars>>

NextCalls ==
    \/ CallGetPlanks
    \/ CallGetFlattenedPlanks
    \/ CallGetPoint
    \/ CallHallucinateStation

SpecCalls == InitCalls /\ [][NextCalls]_vars

\* ------------------------------------------------------------------------
\* SpecBuild: a Spec as loaded from the three tables, and get_hull on it.

Ft(f) == [feet |-> f, inches |-> 0, eighths |-> 0]
FtIn(f, i) == [feet |-> f, inches |-> i, eighths |-> 0]
Given(m) == [some |-> TRUE, m |-> m]
Blank == [some |-> FALSE, m |-> Zero]

\* The ways a table carries its Sheer row for two stations: complete, the
\* cell of the first or of the second station omitted, no row at all, and
\* two rows of which only the second has the cell of the first station.
SheerShapes == {"full", "omit1", "omit2", "absent", "twice"}

SheerRows(shape, m1, m2) ==
    CASE shape = "full" -> << <<Sheer, <<Given(m1), Given(m2)>> >> >>
      [] shape = "omit1" -> << <<Sheer, <<Blank, Given(m2)>> >> >>
      [] shape = "omit2" -> << <<Sheer, <<Given(m1), Blank>> >> >>
      [] shape = "absent" -> <<>>
      [] shape = "twice" -> << <<Sheer, <<Blank, Given(m2)>> >>,
                              <<Sheer, <<Given(m1), Given(m2)>> >> >>

\* What else the tables say: everything, no position row for the second
\* waterline, no height on the buttock for the second station, three
\* more measurements near the keel that lie within an inch of each other,
\* or one more breadth row, on a waterline that has no position row.
OtherShapes == {"full", "noposition", "noheight", "close", "unplaced"}

FtInEi(f, i, e) == [feet |-> f, inches |-> i, eighths |-> e]

\* Two stations three feet apart, each measured at the sheer, on the
\* buttock one foot out, at the wale and on the waterlines one and two
\* feet up.
BuildData(positions, heights, breadths, others, at) ==
    [stations |-> <<"0", "1">>,
     positions |->
        SheerRows(positions, at[1], at[2])
        \o << <<WLUp(Ft(1)), <<Given(at[1]), Given(at[2])>> >> >>
        \o (IF others = "noposition" THEN <<>>
            ELSE << <<WLUp(Ft(2)), <<Given(at[1]), Given(at[2])>> >> >>)
        \o (IF others # "close" THEN <<>>
            ELSE << <<WLUp(Ft(0)), <<Given(at[1]), Given(at[2])>> >>,
                    <<WLUp(FtInEi(0, 0, 1)), <<Given(at[1]), Given(at[2])>> >> >>),
     heights |->
        << <<ButOut(Ft(1)),
             <<Given(FtIn(0, 6)),
               IF others = "noheight" THEN Blank ELSE Given(FtIn(0, 3))>> >>,
           <<Wale, <<Given(FtIn(2, 6)), Given(FtIn(2, 3))>> >> >>
        \o SheerRows(heights, Ft(3), FtIn(2, 9))
        \o (IF others # "close" THEN <<>>
            ELSE << <<ButOut(FtInEi(0, 0, 3)), <<Given(Ft(0)), Given(Ft(0))>> >> >>),
     breadths |->
        << <<WLUp(Ft(2)), <<Given(FtIn(2, 6)), Given(Ft(2))>> >> >>
        \o SheerRows(breadths, Ft(3), FtIn(2, 6))
        \o << <<WLUp(Ft(1)), <<Given(Ft(2)), Given(FtIn(1, 6))>> >> >>
        \o (IF others # "close" THEN <<>>
            ELSE << <<WLUp(Ft(0)),
                      <<Given(FtInEi(0, 0, 6)), Given(FtInEi(0, 0, 6))>> >>,
                    <<WLUp(FtInEi(0, 0, 1)), <<Given(Ft(0)), Given(Ft(0))>> >> >>)
        \o (IF others # "unplaced" THEN <<>>
            ELSE << <<WLUp(FtIn(1, 6)),
                      <<Given(FtIn(2, 3)), Given(FtIn(1, 9))>> >> >>)]

BuildPlanks ==
    [stations |-> <<NamedStation("0"), NamedStation("1")>>,
     plank_locations |-> <<[j \in 1..2 |-> Fraction(1, 2)]>>]

\* The fore-aft positions of the two station columns: the columns in the
\* order of their positions, and the other way round.
ColumnOrders == {<<Ft(0), Ft(3)>>, <<Ft(3), Ft(0)>>}

BuildSpecs ==
    {[data |-> BuildData(positions, heights, breadths, others, at),
      planks |-> BuildPlanks,
      config |-> [resolution |-> HullRes]] :
        positions \in SheerShapes, heights \in SheerShapes,
        breadths \in SheerShapes, others \in OtherShapes,
        at \in ColumnOrders}

InitBuild ==
    /\ SplineIdle
    /\ TriIdle
    /\ HullIdle
    /\ CallIdle
    /\ FeetIdle
    /\ LoadIdle
    /\ bd_spec \in BuildSpecs
    /\ bd_hull = NoResult

\* spec.get_hull()
GetHull ==
    /\ bd_hull' = get_hull(bd_spec)
    /\ UNCHANGED <<sp_vars, tri_vars, hull_vars, call_vars, bd_spec, feet_vars,
                   load_vars>>

NextBuild == GetHull

SpecBuild == InitBuild /\ [][NextBuild]_vars

\* ------------------------------------------------------------------------
\* SpecFeet: measurements printed with {:?}, texts, and Feet::parse on them.

FeetParts == {0, 7, 12, MaxU32}
FeetValues == [feet : FeetParts, inches : FeetParts, eighths : FeetParts]

Chars == {"0", "1", "-", "+", "x"}
Texts == SeqsOf(Chars, MaxText)

InitFeet ==
    /\ SplineIdle
    /\ TriIdle
    /\ HullIdle
    /\ CallIdle
    /\ BuildIdle
    /\ LoadIdle
    /\ FeetIdle

\* format!("{:?}", x), for the one text of a behaviour
DebugPrint ==
    /\ FeetIdle
    /\ \E x \in FeetValues :
        /\ ft_x' = x
        /\ ft_text' = Feet_debug(x)
    /\ ft_parsed' = NoResult
    /\ UNCHANGED <<sp_vars, tri_vars, hull_vars, call_vars, build_vars, load_vars>>

\* A text from elsewhere, a cell of a table for one.
Read ==
    /\ FeetIdle
    /\ \E text \in Texts :
        /\ ft_x' = <<>>
        /\ ft_text' = text
    /\ ft_parsed' = NoResult
    /\ UNCHANGED <<sp_vars, tri_vars, hull_vars, call_vars, build_vars, load_vars>>

\* Feet::parse(&text)
Parse ==
    /\ ft_parsed = NoResult
    /\ ft_parsed' = Feet_parse(ft_text)
    /\ UNCHANGED <<sp_vars, tri_vars, hull_vars, call_vars, build_vars,
                   load_vars, ft_x, ft_text>>

NextFeet == DebugPrint \/ Read \/ Parse

SpecFeet == InitFeet /\ [][NextFeet]_vars

\* ------------------------------------------------------------------------
\* SpecLoad: a plank file and Planks::load_from on it.

\* What a cell of the file may hold: "x", fractions in range written in
\* several ways, numbers out of range, and texts that are no number.
CellTexts ==
    { <<"x">>, <<"0">>, <<"1">>, <<"0", ".", "5">>, <<".", "2", "5">>,
      <<"1", ".", "5">>, <<"-", "0", ".", "5">>, <<"-", "0">>, <<"2">>,
      <<"N", "a", "N">>, <<"i", "n", "f">>, <<"1", "x">>, <<>> }

\* The header: the corner, a station by name and one by position.
PlankHeaders == << <<>>, <<"0">>, <<"1", "-", "6", "-", "0">> >>

\* A record: its label and a cell under each station.
PlankRecords == {<<label, a, b>> : label \in {<<"1">>}, a \in CellTexts, b \in CellTexts}

PlankFiles ==
    {[headers |-> PlankHeaders, records |-> records] :
        records \in SeqsOf(PlankRecords, 2) \ {<<>>}}

InitLoad ==
    /\ SplineIdle
    /\ TriIdle
    /\ HullIdle
    /\ CallIdle
    /\ BuildIdle
    /\ FeetIdle
    /\ ld_file \in PlankFiles
    /\ ld_planks = NoResult

\* Planks::load_from(file)
LoadPlanks ==
    /\ ld_planks' = Planks_load_from(ld_file)
    /\ UNCHANGED <<sp_vars, tri_vars, hull_vars, call_vars, build_vars,
                   feet_vars, ld_file>>

NextLoad == LoadPlanks

SpecLoad == InitLoad /\ [][NextLoad]_vars

\* ------------------------------------------------------------------------
\* Properties of Spline::new.

\* The points of the list are pairwise distinct.
Distinct(input) ==
    \A i, j \in 1..Len(input) : i # j => input[i] # input[j]

\* No two consecutive points of the list are equal.
NoRepeat(input) == \A k \in 2..Len(input) : input[k] # input[k - 1]

\* The number of points left after collapsing consecutive equal points.
Collapsed(input) ==
    Cardinality({k \in 1..Len(input) : k = 1 \/ input[k] # input[k - 1]})

\* C1, as stated: a Spline built from N >= 4 distinct points at resolution
\* R caches exactly R * (N - 3) + 1 samples, the first and last of which
\* are the first and last reference points.
C1_AsStated ==
    (sp.status = "Ok" /\ Distinct(sp_input)) =>
        /\ Len(sp.points) = sp_res * (Len(sp_input) - 3) + 1
        /\ sp.points[1] = sp_input[1]
        /\ Last(sp.points) = Last(sp_input)

\* C1, amended: a Spline built from N >= 4 distinct points at resolution R
\* caches exactly R * (N - 1) + 1 samples (R for each of the N - 1 spans
\* between neighbouring reference points, and the final endpoint), the
\* first and last of which are the first and last reference points.  It
\* holds whenever no two neighbouring reference points are equal.
C1_SampleCount ==
    (sp.status = "Ok" /\ NoRepeat(sp_input)) =>
        /\ Len(sp.points) = sp_res * (Len(sp_input) - 1) + 1
        /\ sp.points[1] = sp_input[1]
        /\ Last(sp.points) = Last(sp_input)

C1_Witness ==
    /\ sp.status = "Ok"
    /\ Distinct(sp_input)
    /\ Len(sp_input) = 4
    /\ sp_res = MaxRes
    /\ Len(sp.points) = MaxRes * 3 + 1

\* The list is [P, P, Q, R, S]: five points, the first two coincident.
IsPPQRS(input) == Len(input) = 5 /\ input[1] = input[2]

\* C2, as stated: Spline::new([P, P, Q, R, S]) produces the same cached
\* polyline, element for element and with the same length, as
\* Spline::new([P, Q, R, S]).
C2_AsStated ==
    (sp.status # "None" /\ IsPPQRS(sp_input)) =>
        sp = Spline_new(Tail(sp_input), sp_res)

\* C2, amended: Spline::new([P, P, Q, R, S]) succeeds exactly when
\* Spline::new([P, Q, R, S]) does, and its cached polyline is `resolution`
\* copies of P followed by the cached polyline of Spline::new([P, Q, R, S]).
C2_DedupEquivalence ==
    (sp.status # "None" /\ IsPPQRS(sp_input)) =>
        LET other == Spline_new(Tail(sp_input), sp_res)
        IN  /\ sp.status = other.status
            /\ sp.status = "Ok" =>
                sp.points = [k \in 1..sp_res |-> sp_input[1]] \o other.points

C2_Witness ==
    /\ sp.status = "Ok"
    /\ IsPPQRS(sp_input)
    /\ sp_res = MaxRes
    /\ Len(sp.points) = Len(Spline_new(Tail(sp_input), sp_res).points) + MaxRes

\* C10, as stated: Spline::new returns the "too few points" error exactly
\* when fewer than 4 points remain after collapsing consecutive coincident
\* points, and succeeds otherwise.
C10_AsStated ==
    sp.status # "None" =>
        /\ sp.status = "Err" <=> Collapsed(sp_input) < 4
        /\ sp.status = "Ok" <=> Collapsed(sp_input) >= 4

\* What Spline::new does on every list: on a non-empty one it returns the
\* "too few points" error exactly when fewer than 4 points remain after
\* collapsing consecutive coincident points, and succeeds with 4 or more;
\* on the empty one it returns no error but aborts ("Spline given empty
\* vector.").
C10_TooFewPoints ==
    sp.status # "None" =>
        /\ sp.status = "Panic" <=> Len(sp_input) = 0
        /\ sp.status = "Err" <=> (Len(sp_input) > 0 /\ Collapsed(sp_input) < 4)
        /\ sp.status = "Ok" <=> Collapsed(sp_input) >= 4
        /\ sp.status # "Ok" => sp.points = <<>>

C10_Witness ==
    /\ sp.status = "Err"
    /\ Len(sp_input) = 5
    /\ Collapsed(sp_input) = 3

\* ------------------------------------------------------------------------
\* Properties of the arc-length queries.

\* Two points agree within one fixed-point unit in each coordinate.
Close(p, q) == \A k \in 1..3 : Abs(p[k] - q[k]) <= 1

\* C5: at_len(0) is the first cached sample and at_len(length()) is the
\* last cached sample, within tolerance, for every Spline.
C5_RoundTrip ==
    (sp_query.op = "at_len" /\ sp_query.arg \in {0, Spline_length(sp.points)}) =>
        /\ sp_query.walks[1].status = "Ok"
        /\ sp_query.arg = 0 =>
            Close(sp_query.walks[1].point, sp.points[1])
        /\ sp_query.arg = Spline_length(sp.points) =>
            Close(sp_query.walks[1].point, Last(sp.points))

\* C6: for fractions t1 < t2 in [0, 1], the arc length accumulated up to
\* the point at_t(t1) returns is at most that up to the point at_t(t2)
\* returns: the walks of sample(Some(r)), made at 0/r, 1/r, .. r/r, end at
\* non-decreasing arc lengths.
C6_MonotonicCoverage ==
    sp_query.op = "sample" =>
        \A i, j \in 1..Len(sp_query.walks) :
            i < j =>
                /\ sp_query.walks[i].status = "Ok"
                /\ sp_query.walks[j].status = "Ok"
                /\ sp_query.walks[i].arc <= sp_query.walks[j].arc

C6_Witness ==
    /\ sp_query.op = "sample"
    /\ sp_query.arg = TDen
    /\ \A i \in 1..TDen : sp_query.walks[i].arc < sp_query.walks[i + 1].arc

\* ------------------------------------------------------------------------
\* Properties of the planks of a Hull.

\* The points Hull::get_point gives for the cells of a row of the plank
\* table that are not omitted, in column order.
RECURSIVE RowPoints(_, _, _)
RowPoints(h, row, j) ==
    IF j > Len(row) THEN <<>>
    ELSE (IF row[j].some
          THEN <<get_point(h, row[j].f, h.planks.stations[j]).point>>
          ELSE <<>>)
         \o RowPoints(h, row, j + 1)

\* C3: on a plank table with 2k rows whose boundaries all resolve,
\* get_planks returns exactly k Planks, plank i (from 0) having the Spline
\* through row 2i as its bottom and the Spline through row 2i + 1 as its
\* top.
C3_PlankCount ==
    LET rows == hull.planks.plank_locations
    IN  (hl_planks.status = "Ok" /\ Len(rows) % 2 = 0) =>
            /\ 2 * Len(hl_planks.planks) = Len(rows)
            /\ \A i \in 0..(Len(hl_planks.planks) - 1) :
                /\ hl_planks.planks[i + 1].bottom_line =
                     Spline_new(RowPoints(hull, rows[2 * i + 1], 1),
                                hull.resolution).points
                /\ hl_planks.planks[i + 1].top_line =
                     Spline_new(RowPoints(hull, rows[2 * i + 2], 1),
                                hull.resolution).points

C3_Witness ==
    /\ hl_planks.status = "Ok"
    /\ Len(hull.planks.plank_locations) = 4
    /\ Len(hl_planks.planks) = 2
    /\ hl_planks.planks[1] # hl_planks.planks[2]

\* The planks are stacked: each one's greatest y is at most the least y of
\* every later one.
Stacked(planks) ==
    \A i, j \in 1..Len(planks) :
        i < j => max_coord(planks[i]) <= min_coord(planks[j])

\* C4: after the layout, of get_flattened_planks and of flatten_planks
\* alike, an earlier plank's maximum y over all its top and bottom points
\* is at most a later plank's minimum y.
C4_NoOverlap ==
    /\ hl_flat.status = "Ok" => Stacked(hl_flat.planks)
    /\ hl_laid.status = "Ok" => Stacked(hl_laid.planks)

C4_Witness ==
    /\ hl_flat.status = "Ok"
    /\ hl_laid.status = "Ok"
    /\ Len(hl_flat.planks) = 2
    /\ Len(hl_laid.planks) = 2
    /\ min_coord(hl_flat.planks[1]) < max_coord(hl_flat.planks[1])
    /\ min_coord(hl_laid.planks[2]) < max_coord(hl_laid.planks[2])

\* Every flattened plank has plank.resolution + 1 points on its top line
\* and as many on its bottom line.
SameCounts(planks, flattened) ==
    /\ flattened.status = "Ok"
    /\ Len(flattened.planks) = Len(planks)
    /\ \A k \in 1..Len(planks) :
        /\ Len(flattened.planks[k].top_line) = planks[k].resolution + 1
        /\ Len(flattened.planks[k].bottom_line) = planks[k].resolution + 1

\* C8: Plank::flatten returns top and bottom lines of the same number of
\* points, plank.resolution + 1, for every Plank built by Plank::new.
C8_SameLength ==
    /\ (hl_planks.status = "Ok" /\ hl_flat.status # "None") =>
            SameCounts(hl_planks.planks, hl_flat)
    /\ hl_laid.status # "None" => SameCounts(hl_planks.planks, hl_laid)

C8_Witness ==
    /\ hl_planks.status = "Ok"
    /\ hl_flat.status = "Ok"
    /\ hl_laid.status = "Ok"
    /\ Len(hl_planks.planks) = 2
    /\ Len(hl_flat.planks[1].top_line) = 4 * hull.resolution + 1
    /\ Len(hl_laid.planks[1].bottom_line) = 4 * hull.resolution + 1

\* The outline is the top line, then the bottom line reversed, then the
\* first top point again.
ClosedOutline(fp, outline) ==
    LET n == Len(fp.top_line)
    IN  /\ Len(fp.bottom_line) = n
        /\ Len(outline) = 2 * n + 1
        /\ \A k \in 1..n : outline[k] = fp.top_line[k]
        /\ \A k \in 1..n : outline[n + k] = fp.bottom_line[n + 1 - k]
        /\ outline[2 * n + 1] = fp.top_line[1]
        /\ outline[1] = outline[2 * n + 1]

\* C9: the outline of a flattened plank with N points a boundary is its
\* top line in order, its bottom line reversed and its first top point:
\* 2N + 1 points, the first and the last the same, also after the plank
\* has been rotated and shifted by the layout.
C9_ClosedOutline ==
    /\ \A k \in 1..Len(hl_paths) : ClosedOutline(hl_flat.planks[k], hl_paths[k])
    /\ \A k \in 1..Len(hl_outlines) :
        ClosedOutline(hl_laid.planks[k], hl_outlines[k])

C9_Witness ==
    /\ Len(hl_paths) = 2
    /\ Len(hl_outlines) = 2
    /\ hl_flat.planks[2] # Plank_flatten(hl_planks.planks[2])
    /\ Len(hl_outlines[2]) = 2 * (4 * hull.resolution + 1) + 1

\* ------------------------------------------------------------------------
\* Properties of triangulate.

Cross(u, v) == u[1] * v[2] - u[2] * v[1]

\* The call of the test in plank.rs: pivots (1, 4) and (1, 1), target
\* distances 4 and 5.
TestCall ==
    [pt1 |-> <<FP, 4 * FP>>, pt2 |-> <<FP, FP>>, x |-> 4 * FP, y |-> 5 * FP]

\* The call takes the law-of-cosines branch at pt1 and its result is a
\* point.
AtPt1 ==
    /\ tri_in # NoCall
    /\ tri_in.pt1 # tri_in.pt2
    /\ tri_in.x # 0
    /\ ~IsNaN(tri_out)

\* A triangle on pt1 and pt2 with edges x and y exists and is not flat.
Triangle ==
    LET l == distance2(tri_in.pt1, tri_in.pt2)
    IN  /\ tri_in.y < l + tri_in.x
        /\ tri_in.y > Abs(l - tri_in.x)

\* C7: triangulate(pt1, pt2, x, y) is a point at distance x from pt1
\* (within the rounding of the arithmetic, TriTol units for each foot of x)
\* and, when a triangle with those edges exists, y from pt2 (within twice
\* that rounding),
\* found by turning the direction pt1 -> pt2 counter-clockwise about pt1,
\* so it is never right of the directed line pt1 -> pt2 by more than that
\* rounding; for pivots (1, 4)
\* and (1, 1) and distances 4 and 5 it is exactly (5, 4), not the mirror
\* image (-3, 4).
C7_Triangulate ==
    /\ tri_in = TestCall => tri_out = <<5 * FP, 4 * FP>>
    /\ AtPt1 =>
        LET tol == TriTol * (tri_in.x \div FP)
        IN  /\ Cross(<<tri_in.pt2[1] - tri_in.pt1[1], tri_in.pt2[2] - tri_in.pt1[2]>>,
                     <<tri_out[1] - tri_in.pt1[1], tri_out[2] - tri_in.pt1[2]>>)
                 >= - tol * distance2(tri_in.pt1, tri_in.pt2)
            /\ Abs(distance2(tri_out, tri_in.pt1) - tri_in.x) <= tol
            /\ Triangle =>
                   Abs(distance2(tri_out, tri_in.pt2) - tri_in.y) <= 2 * tol

C7_Witness ==
    /\ tri_in = TestCall
    /\ tri_out = <<5 * FP, 4 * FP>>

\* ------------------------------------------------------------------------
\* Properties of at_len past the end, of length and of at_x.

\* The length asked of at_len by the last query: d for at_len(d) and
\* t * length() for at_t(t).
AskedLength ==
    IF sp_query.op = "at_len" THEN sp_query.arg
    ELSE Mul(sp_query.arg, Spline_length(sp.points))

\* The point lies in the box spanned by the two ends of a segment of the
\* polyline, within one fixed-point unit.
OnSegment(point, points, k) ==
    \A c \in 1..3 :
        \/ points[k][c] - 1 <= point[c] /\ point[c] <= points[k + 1][c] + 1
        \/ points[k + 1][c] - 1 <= point[c] /\ point[c] <= points[k][c] + 1

\* C11: at_len(d) aborts ("Fell off the end of a spline") exactly when d
\* exceeds length(); for d in [0, length()], and so for at_t(f) with f in
\* [0, 1] and for every sample of sample(Some(r)), it returns a point on a
\* segment of the cached polyline.
C11_FellOffTheEnd ==
    /\ sp_query.op \in {"at_len", "at_t"} =>
        LET walk == sp_query.walks[1]
        IN  /\ walk.status = "Panic" <=> AskedLength > Spline_length(sp.points)
            /\ walk.status = "Ok" <=> AskedLength <= Spline_length(sp.points)
            /\ walk.status = "Ok" =>
                 OnSegment(walk.point, sp.points, walk.segment)
    /\ sp_query.op = "at_t" => sp_query.walks[1].status = "Ok"
    /\ sp_query.op = "sample" =>
        \A k \in 1..Len(sp_query.walks) :
            /\ sp_query.walks[k].status = "Ok"
            /\ OnSegment(sp_query.walks[k].point, sp.points,
                         sp_query.walks[k].segment)

C11_Witness ==
    /\ sp_query.op = "at_len"
    /\ Spline_length(sp.points) > 0
    /\ sp_query.arg > Spline_length(sp.points)
    /\ sp_query.walks[1].status = "Panic"

\* ------------------------------------------------------------------------
\* Properties of the calls on a Hull.

\* The indices, in the station list of the Hull, of the stations of a name.
Named(h, name) == {k \in 1..Len(h.stations) : h.stations[k].name = name}

\* The Hull with every station renamed to its index in the list.
Renamed(h) ==
    [h EXCEPT !.stations =
        [k \in 1..Len(h.stations) |->
            [h.stations[k] EXCEPT !.name = <<"renamed", k>>]]]

\* C12: get_point on Station(name) is a lookup error when no station of
\* the Hull has that name, and otherwise at_t(fraction) on the first
\* station of the list with that name; on Position(posn) the result does
\* not depend on the names of the stations.
C12_GetPoint ==
    hl_point # NoPoint =>
        LET station == hl_point.station
            found == Named(hull, station.name)
        IN  /\ (station.kind = "Station" /\ found = {}) =>
                hl_point.result.status = "Err"
            /\ (station.kind = "Station" /\ found # {}) =>
                LET first == CHOOSE k \in found : \A j \in found : k <= j
                IN  hl_point.result =
                      [status |-> "Ok",
                       point |-> Spline_at_t(hull.stations[first].spline,
                                             hl_point.t).point]
            /\ station.kind = "Position" =>
                hl_point.result = get_point(Renamed(hull), hl_point.t, station)

C12_Witness ==
    /\ hl_point # NoPoint
    /\ hl_point.station = NamedStation("1")
    /\ Cardinality(Named(hull, "1")) = 2
    /\ hl_point.result.status = "Ok"
    /\ hl_point.result.point =
         Spline_at_t(hull.stations[2].spline, hl_point.t).point
    /\ hl_point.result.point #
         Spline_at_t(hull.stations[3].spline, hl_point.t).point

\* The sheer measurement of a table that no row supplies for station i.
NotSupplied(rows, i) ==
    \A k \in 1..Len(rows) : rows[k][1] = Sheer => ~rows[k][2][i].some

SheerMissing(data) ==
    \E i \in 1..Len(data.stations) :
        \/ NotSupplied(data.breadths, i)
        \/ NotSupplied(data.heights, i)
        \/ NotSupplied(data.positions, i)

\* C13: when, for some station, no Sheer row of the breadths, of the
\* heights or of the positions table supplies the measurement (the cell is
\* omitted or the row is absent), get_hull returns an error and no Hull,
\* not even the stations before the failing one.
C13_MissingSheer ==
    (bd_hull # NoResult /\ SheerMissing(bd_spec.data)) =>
        bd_hull.status = "Err" /\ bd_hull.hull = <<>>

\* The sheer height of the second station is omitted, the first station is
\* complete, and get_hull has failed.
C13_Witness ==
    /\ bd_hull # NoResult
    /\ NotSupplied(bd_spec.data.heights, 2)
    /\ ~NotSupplied(bd_spec.data.heights, 1)
    /\ ~NotSupplied(bd_spec.data.breadths, 1)
    /\ ~NotSupplied(bd_spec.data.positions, 1)
    /\ station_of(bd_spec, 1, <<>>).status = "Ok"
    /\ bd_hull.status = "Err"

RoundTrip ==
    (ft_x # <<>> /\ ft_parsed # NoResult) =>
        ft_parsed.status = "Ok" /\ ft_parsed.feet = ft_x

\* Parts that are unsigned integers: one or more digits.
AllDigits(part) == part # <<>> /\ \A k \in 1..Len(part) : IsDigit(part[k])

\* Parts that are digits after an optional "+".
SignedDigits(part) ==
    \/ AllDigits(part)
    \/ part # <<>> /\ part[1] = "+" /\ AllDigits(Tail(part))

Rejected(Number(_)) ==
    (/\ ft_parsed # NoResult
     /\ \/ ft_text = <<"x">>
        \/ LET parts == split(ft_text, "-")
           IN  Len(parts) # 3 \/ \E k \in 1..Len(parts) : ~Number(parts[k]))
        => ft_parsed.status = "Err"

\* C16 as stated: Feet::parse of what {:?} prints for a Feet is that Feet,
\* and Feet::parse rejects "x" and every text that is not three unsigned
\* integers separated by dashes.
C16_AsStated == RoundTrip /\ Rejected(AllDigits)

\* C16: Feet::parse of what {:?} prints for a Feet is that Feet, and
\* Feet::parse rejects "x" and every text that is not three dash-separated
\* parts, each of them digits after an optional "+".
C16_RoundTrip == RoundTrip /\ Rejected(SignedDigits)

\* A Feet with parts of one, two and three digits was printed and parsed
\* back.
C16_Witness ==
    /\ ft_x = [feet |-> MaxU32, inches |-> 12, eighths |-> 7]
    /\ ft_parsed # NoResult
    /\ ft_parsed.status = "Ok"

\* The cells of the file that hold a fraction: all but the first of each
\* record.
FractionCells(file) ==
    {<<r, k>> : r \in 1..Len(file.records), k \in 2..3}

\* A cell that is not "x" and that does not read as a number from 0 to 1.
BadCell(text) ==
    /\ text # <<"x">>
    /\ LET frac == f32_from_str(text)
       IN  frac.status # "Ok" \/ frac.kind # "num" \/ frac.v < 0 \/ frac.v > FP

\* C14: every fraction of a loaded plank table is omitted, where the cell
\* is "x", or a number from 0 to 1; and when some cell is not "x" and reads
\* as no number or as a number outside that range, the load is an error
\* and there is no table.
C14_FractionsInRange ==
    ld_planks # NoResult =>
        /\ ld_planks.status = "Ok" =>
              \A c \in FractionCells(ld_file) :
                  LET cell == ld_planks.planks.plank_locations[c[1]][c[2] - 1]
                  IN  /\ cell.some <=> ld_file.records[c[1]][c[2]] # <<"x">>
                      /\ cell.some => cell.f >= 0 /\ cell.f <= FP
        /\ (\E c \in FractionCells(ld_file) :
                BadCell(ld_file.records[c[1]][c[2]])) =>
              ld_planks.status = "Err" /\ ld_planks.planks = <<>>

\* A file whose first record is in range and whose second record holds
\* 1.5 was refused.
C14_Witness ==
    /\ ld_planks # NoResult
    /\ Len(ld_file.records) = 2
    /\ ld_file.records[1] = << <<"1">>, <<"x">>, <<"0", ".", "5">> >>
    /\ ld_file.records[2][3] = <<"1", ".", "5">>
    /\ ld_planks.status = "Err"

\* A call leaves the Hull as it was and, where it repeats an earlier call
\* whose result is still at hand, returns that result again.
SameHullSameResults ==
    /\ hull' = hull
    /\ hl_planks # NoPlanks => hl_planks' = hl_planks
    /\ hl_flat # NoPlanks => hl_flat' = hl_flat
    /\ (/\ hl_point # NoPoint
        /\ hl_point'.t = hl_point.t
        /\ hl_point'.station = hl_point.station) => hl_point' = hl_point
    /\ (hl_station # NoStation /\ hl_station'.posn = hl_station.posn) =>
          hl_station' = hl_station

\* C15: no call of get_planks, get_flattened_planks, get_point or
\* hallucinate_station changes the stations, the plank table or the
\* resolution of the Hull, and a call repeated with the same arguments
\* returns what it returned before, whatever was called in between.
C15_Immutable == [][SameHullSameResults]_vars

\* All four operations have been called, a station was hallucinated, and
\* the Hull still has its four stations.
C15_Witness ==
    /\ hl_planks # NoPlanks
    /\ hl_flat # NoPlanks
    /\ hl_point # NoPoint
    /\ hl_station # NoStation
    /\ hl_station.result.status = "Ok"
    /\ Len(hull.stations) = 4
    /\ \A k \in 1..4 : hull.stations[k] # hl_station.result

\* ------------------------------------------------------------------------
\* Properties of Plank::triangles and Plank::flatten.

\* The four lengths Plank::triangles gives for columns i and i + 1 are
\* top_i - top_i+1, the diagonal from..to, top_i+1 - bottom_i+1 and
\* bottom_i - bottom_i+1, in that order.
EdgeLengths(plank, Diagonal(_, _, _)) ==
    Bind(Spline_sample(plank.top_line, plank.resolution), LAMBDA top_pts :
    Bind(Spline_sample(plank.bottom_line, plank.resolution), LAMBDA bot_pts :
    Bind(Plank_triangles(plank), LAMBDA t :
        /\ t.status = "Ok"
        /\ Len(t.triangles) = Len(top_pts) - 1
        /\ \A i \in 1..(Len(top_pts) - 1) :
              t.triangles[i] =
                <<distance3(top_pts[i], top_pts[i + 1]),
                  Diagonal(top_pts, bot_pts, i),
                  distance3(top_pts[i + 1], bot_pts[i + 1]),
                  distance3(bot_pts[i], bot_pts[i + 1])>>)))

\* Plank::flatten places top point i + 1 with the first two lengths, from
\* the top and bottom points i, and bottom point i + 1 with the last two,
\* from the top point i + 1 and the bottom point i.
PlacedByPairs(plank) ==
    Bind(Plank_triangles(plank), LAMBDA t :
    Bind(Plank_flatten(plank), LAMBDA f :
        /\ f.status = "Ok"
        /\ \A i \in 1..Len(t.triangles) :
              /\ f.top_line[i + 1] =
                    triangulate(f.top_line[i], f.bottom_line[i],
                                t.triangles[i][1], t.triangles[i][2])
              /\ f.bottom_line[i + 1] =
                    triangulate(f.top_line[i + 1], f.bottom_line[i],
                                t.triangles[i][3], t.triangles[i][4])))

TopToNextBottom(top_pts, bot_pts, i) == distance3(top_pts[i], bot_pts[i + 1])
BottomToNextTop(top_pts, bot_pts, i) == distance3(bot_pts[i], top_pts[i + 1])

\* C18 as stated: the second length is the diagonal top_i - bottom_i+1.
C18_AsStated ==
    hl_laid.status = "Ok" =>
        \A k \in 1..Len(hl_planks.planks) :
            /\ EdgeLengths(hl_planks.planks[k], TopToNextBottom)
            /\ PlacedByPairs(hl_planks.planks[k])

\* C18: for each pair of columns (i, i + 1) Plank::triangles computes the
\* lengths top_i - top_i+1, bottom_i - top_i+1 (the diagonal),
\* top_i+1 - bottom_i+1 and bottom_i - bottom_i+1, in that order, and
\* flatten places the next top point with the first two and the next
\* bottom point with the last two.
C18_EdgeOrder ==
    hl_laid.status = "Ok" =>
        \A k \in 1..Len(hl_planks.planks) :
            /\ EdgeLengths(hl_planks.planks[k], BottomToNextTop)
            /\ PlacedByPairs(hl_planks.planks[k])

\* Planks were flattened, and in one of them the two diagonals of some
\* pair of columns differ in length.
C18_Witness ==
    /\ hl_laid.status = "Ok"
    /\ \E k \in 1..Len(hl_planks.planks) :
        LET plank == hl_planks.planks[k]
            top_pts == Spline_sample(plank.top_line, plank.resolution)
            bot_pts == Spline_sample(plank.bottom_line, plank.resolution)
        IN  \E i \in 1..(Len(top_pts) - 1) :
                TopToNextBottom(top_pts, bot_pts, i)
                    # BottomToNextTop(top_pts, bot_pts, i)

\* The flattened edge from p to q is as long as the edge of length len it
\* stands for, within the rounding of the arithmetic: m times TriTol units
\* for each foot of it, begun or complete.
SameLength(p, q, len, m) ==
    Abs(distance2(p, q) - len) <= m * TriTol * ((len \div FP) + 1)

\* Step i of Plank::flatten is not degenerate: the pivots are apart and
\* the first length is not zero, in both calls of triangulate.
NonDegenerate(flat, tri, i) ==
    /\ ~practically_zero(10 * distance2(flat.top_line[i], flat.bottom_line[i]))
    /\ ~practically_zero(tri[1])
    /\ ~practically_zero(10 * distance2(flat.top_line[i + 1], flat.bottom_line[i]))
    /\ ~practically_zero(tri[3])

EdgesKept(plank, flat, m) ==
    Bind(Spline_sample(plank.top_line, plank.resolution), LAMBDA top_pts :
    Bind(Spline_sample(plank.bottom_line, plank.resolution), LAMBDA bot_pts :
    Bind(Plank_triangles(plank).triangles, LAMBDA triangles :
        /\ SameLength(flat.top_line[1], flat.bottom_line[1],
                      distance3(top_pts[1], bot_pts[1]), m)
        /\ \A i \in 1..(Len(top_pts) - 1) :
              NonDegenerate(flat, triangles[i], i) =>
                /\ SameLength(flat.top_line[i], flat.top_line[i + 1],
                              distance3(top_pts[i], top_pts[i + 1]), m)
                /\ SameLength(flat.top_line[i + 1], flat.bottom_line[i + 1],
                              distance3(top_pts[i + 1], bot_pts[i + 1]), m)
                /\ SameLength(flat.bottom_line[i], flat.bottom_line[i + 1],
                              distance3(bot_pts[i], bot_pts[i + 1]), 2 * m))))

\* C17: in every step of Plank::flatten that is not degenerate, the
\* flattened edges top[i] - top[i+1], top[i+1] - bottom[i+1] and
\* bottom[i] - bottom[i+1] are as long as the edges between the resampled
\* boundary points they stand for, and so is the left edge
\* top[0] - bottom[0], within the rounding of the arithmetic (2 TriTol
\* units for each foot; twice that for the bottom edges, which triangulate
\* places by their second length); the layout keeps the lengths.
C17_EdgesKept ==
    hl_laid.status = "Ok" =>
        \A k \in 1..Len(hl_planks.planks) :
            /\ EdgesKept(hl_planks.planks[k],
                         Plank_flatten(hl_planks.planks[k]), 2)
            /\ EdgesKept(hl_planks.planks[k], hl_laid.planks[k], 2)

\* Two planks were flattened, and no step of the first was degenerate.
C17_Witness ==
    /\ hl_laid.status = "Ok"
    /\ Len(hl_planks.planks) = 2
    /\ LET plank == hl_planks.planks[1]
           flat == Plank_flatten(plank)
           triangles == Plank_triangles(plank).triangles
       IN  /\ Len(triangles) = 4 * hull.resolution
           /\ \A i \in 1..Len(triangles) : NonDegenerate(flat, triangles[i], i)

\* ------------------------------------------------------------------------
\* Properties of Spline::length and Spline::at_x.

\* The sum of Dist over the consecutive pairs of points.
RECURSIVE SumOfSegments(_, _, _)
SumOfSegments(points, Dist(_, _), k) ==
    IF k >= Len(points) THEN 0
    ELSE Dist(points[k], points[k + 1]) + SumOfSegments(points, Dist, k + 1)

\* The distance of two points of space, and the distance of their
\* projections along the fore-aft axis: the x coordinates left out.
InSpace(p, q) == distance3(p, q)
AcrossX(p, q) == distance2(<<p[2], p[3]>>, <<q[2], q[3]>>)

\* at_len accumulates up to the total length() gives: it finds a point
\* for every length up to that total, none beyond it, and at the total it
\* has accumulated the total.
SameTotal ==
    sp_query.op = "at_len" =>
        /\ sp_query.walks[1].status = "Ok"
              <=> sp_query.arg <= Spline_length(sp.points)
        /\ sp_query.arg = Spline_length(sp.points) =>
              sp_query.walks[1].arc = Spline_length(sp.points)

Ascending(points) ==
    \A k \in 1..(Len(points) - 1) : points[k][1] <= points[k + 1][1]

\* at_x was asked for a position between the first and the last sample
\* of an ascending polyline.
AtXInRange ==
    /\ sp.status = "Ok"
    /\ sp_query.op = "at_x"
    /\ Ascending(sp.points)
    /\ sp.points[1][1] <= sp_query.arg
    /\ sp_query.arg <= Last(sp.points)[1]

\* C20 as stated: no cached sample is strictly closer to x in the
\* fore-aft coordinate than the sample at_x(x) returns.
C20_AsStated ==
    AtXInRange =>
        /\ sp_query.walks[1].status = "Ok"
        /\ \A k \in 1..Len(sp.points) :
              Abs(sp.points[k][1] - sp_query.arg)
                >= Abs(sp_query.walks[1].point[1] - sp_query.arg)

\* C20: on a cached polyline whose fore-aft coordinates are ascending,
\* for every x between the first and the last sample's coordinate,
\* at_x(x) returns a cached sample whose fore-aft coordinate is the least
\* of those not below x; a sample before it may be closer to x.
C20_FirstNotBelow ==
    AtXInRange =>
        /\ sp_query.walks[1].status = "Ok"
        /\ \E k \in 1..Len(sp.points) : sp.points[k] = sp_query.walks[1].point
        /\ sp_query.walks[1].point[1] >= sp_query.arg
        /\ \A k \in 1..Len(sp.points) :
              sp.points[k][1] >= sp_query.arg =>
                  sp.points[k][1] >= sp_query.walks[1].point[1]

\* at_x returned a sample after x although the sample before x is
\* closer.
C20_Witness ==
    /\ AtXInRange
    /\ sp_query.walks[1].status = "Ok"
    /\ sp_query.walks[1].point[1] > sp_query.arg
    /\ \E k \in 1..Len(sp.points) :
          /\ sp.points[k][1] < sp_query.arg
          /\ sp_query.arg - sp.points[k][1]
               < sp_query.walks[1].point[1] - sp_query.arg

\* ------------------------------------------------------------------------
\* Properties of the Hull get_hull assembles.

\* The fore-aft position of a Station: the x its reference points share.
StationPosition(station) == station.points[1][1]

\* C21: in every Hull get_hull returns the stations are in the order of
\* their fore-aft positions, whatever the order of the station columns in
\* the data.
C21_StationsOrdered ==
    (bd_hull # NoResult /\ bd_hull.status = "Ok") =>
        \A k \in 1..(Len(bd_hull.hull.stations) - 1) :
            StationPosition(bd_hull.hull.stations[k])
                <= StationPosition(bd_hull.hull.stations[k + 1])

\* The reference points rise in height, and no two neighbours among them
\* are closer than the threshold.
SortedApart(points) ==
    \A k \in 1..(Len(points) - 1) :
        /\ points[k][3] <= points[k + 1][3]
        /\ distance3(points[k], points[k + 1]) >= EQUALITY_THRESHOLD

\* kept is points with some of its elements left out, the first not among
\* them.
RECURSIVE IsSubsequence(_, _)
IsSubsequence(kept, points) ==
    IF kept = <<>> THEN TRUE
    ELSE IF points = <<>> THEN FALSE
    ELSE IF kept[1] = points[1] THEN IsSubsequence(Tail(kept), Tail(points))
    ELSE IsSubsequence(kept, Tail(points))

\* The points get_hull collects for station i, sorted, before
\* remove_duplicates.
Collected(spec, i) ==
    LET data == spec.data
        sheer == Spec_point(lookup(data.positions, i, Sheer).m,
                            lookup(data.breadths, i, Sheer).m,
                            lookup(data.heights, i, Sheer).m)
        hs == heights_from(data, i, 1, <<sheer>>, <<>>)
    IN  sort_by_z(breadths_from(data, i, 1, hs.points).points)

\* C22: every Station of an assembled Hull has its reference points in
\* ascending order of height with no two consecutive points closer than
\* EQUALITY_THRESHOLD, and they are what remove_duplicates kept: a
\* subsequence of the sorted points that begins with the first of them.
C22_SortedApart ==
    (bd_hull # NoResult /\ bd_hull.status = "Ok") =>
        \A i \in 1..Len(bd_hull.hull.stations) :
            LET points == bd_hull.hull.stations[i].points
                sorted == Collected(bd_spec, i)
            IN  /\ SortedApart(points)
                /\ points[1] = sorted[1]
                /\ IsSubsequence(points, sorted)

\* What does hold of every Station of an assembled Hull: ascending
\* heights, and a subsequence of the sorted points that begins with the
\* first of them.
C22_SortedKept ==
    (bd_hull # NoResult /\ bd_hull.status = "Ok") =>
        \A i \in 1..Len(bd_hull.hull.stations) :
            LET points == bd_hull.hull.stations[i].points
                sorted == Collected(bd_spec, i)
            IN  /\ \A k \in 1..(Len(points) - 1) : points[k][3] <= points[k + 1][3]
                /\ points[1] = sorted[1]
                /\ IsSubsequence(points, sorted)

\* ------------------------------------------------------------------------
\* Properties of the cached polyline and of the windows of Spline::new.

\* The window of four reference points that begins at point i (from 1).
WindowAt(input, i) ==
    CentripetalCatmullRom_new(<<input[i], input[i + 1], input[i + 2],
                                input[i + 3]>>)

\* The Middle sub-samples of the windows from window i on, in order.
RECURSIVE MiddlesFrom(_, _, _)
MiddlesFrom(input, resolution, i) ==
    IF i > Len(input) - 3 THEN <<>>
    ELSE catmull_sample(WindowAt(input, i), "Middle", resolution, FALSE)
         \o MiddlesFrom(input, resolution, i + 1)

\* Sample p is reference point q within the rounding of the blends: the two
\* weights of a blend are rounded apart and may sum to one unit more or
\* less than 1, which moves a coordinate by one unit for every foot of it,
\* and the outer segments blend such a point once more.
Through(p, q) ==
    \A k \in 1..3 : Abs(p[k] - q[k]) <= 2 * (Abs(q[k]) \div FP + 1)

\* C23: the cached polyline of a Spline over N points no two consecutive
\* of which are equal, at resolution R, is the First sub-sample of the
\* first window, the Middle sub-sample of every window and the Last
\* sub-sample of the last window with the final endpoint, in that order
\* and nothing else: (N - 1) * R + 1 samples, the one at index k * R being
\* reference point k, within the rounding of the blends, for k in 0..N-1.
\* (Stated of the Spline as Spline::new returns it; no query changes it.)
C23_ThroughEveryPoint ==
    (sp.status = "Ok" /\ sp_query = NoQuery /\ NoRepeat(sp_input)) =>
        LET n == Len(sp_input)
        IN  /\ sp.points =
                  catmull_sample(WindowAt(sp_input, 1), "First", sp_res, FALSE)
                  \o MiddlesFrom(sp_input, sp_res, 1)
                  \o catmull_sample(WindowAt(sp_input, n - 3), "Last", sp_res, TRUE)
            /\ Len(sp.points) = (n - 1) * sp_res + 1
            /\ \A k \in 0..(n - 1) : Through(sp.points[k * sp_res + 1], sp_input[k + 1])

\* A Spline over five points, two windows, at the greatest resolution.
C23_Witness ==
    /\ sp.status = "Ok"
    /\ sp_query = NoQuery
    /\ NoRepeat(sp_input)
    /\ Len(sp_input) = 5
    /\ sp_res = MaxRes
    /\ Len(sp.points) = 4 * MaxRes + 1
    /\ sp.points[2 * MaxRes + 1] = sp_input[3]

\* ------------------------------------------------------------------------
\* Properties of the branches of triangulate.

\* The point the branch at pt2 computes, for any call: pt2 + y * (the
\* direction pt2 -> pt1 turned clockwise by the angle at pt2).
AtPt2(call) ==
    LET l == distance2(call.pt1, call.pt2)
    IN  pivot(call.pt2,
              <<call.pt1[1] - call.pt2[1], call.pt1[2] - call.pt2[2]>>,
              call.y,
              l * l + call.y * call.y - call.x * call.x, 2 * l * call.y, -1)

\* How far p is to the left of the directed line pt1 -> pt2 of the call,
\* times the length of pt1 -> pt2.
LeftOf(call, p) ==
    Cross(<<call.pt2[1] - call.pt1[1], call.pt2[2] - call.pt1[2]>>,
          <<p[1] - call.pt1[1], p[2] - call.pt1[2]>>)

\* The result is a point at distance d from pt, within the rounding of
\* the arithmetic.
PointAt(pt, d) ==
    /\ ~IsNaN(tri_out)
    /\ Abs(distance2(tri_out, pt) - d) <= TriTol * (d \div FP)

\* The first branch: pt1 displaced by x along (-1, 0), whatever x and y.
FallbackBranch ==
    tri_in.pt1 = tri_in.pt2 =>
        tri_out = <<tri_in.pt1[1] - tri_in.x, tri_in.pt1[2]>>

\* The calls of the second branch.
XZero == tri_in.pt1 # tri_in.pt2 /\ tri_in.x = 0

\* The third branch, and the side on which the second and third put the
\* point: for a call whose triangle exists and has no edge of length zero,
\* neither the point computed at pt1 nor the point computed at pt2 is right
\* of pt1 -> pt2 by more than the rounding; for the call of the test, a
\* right triangle, they are the same point within the rounding.
OtherBranches ==
    /\ (tri_in.pt1 # tri_in.pt2 /\ tri_in.x # 0) =>
           IsNaN(tri_out) \/ PointAt(tri_in.pt1, tri_in.x)
    /\ (AtPt1 /\ Triangle /\ tri_in.y # 0) =>
           LET other == AtPt2(tri_in)
               l == distance2(tri_in.pt1, tri_in.pt2)
               tol == TriTol * ((tri_in.x + tri_in.y) \div FP)
           IN  /\ LeftOf(tri_in, tri_out) >= - tol * l
               /\ IsNaN(other) \/ LeftOf(tri_in, other) >= - tol * l
               /\ tri_in = TestCall =>
                     /\ ~IsNaN(other)
                     /\ distance2(tri_out, other) <= tol
                     /\ LeftOf(tri_in, other) > tol * l

WithoutUnplaced(spec, i) ==
    [spec EXCEPT !.data.breadths =
        SelectSeq(spec.data.breadths,
                  LAMBDA row : row[2][i].some =>
                      lookup(spec.data.positions, i, row[1]).status = "Ok")]

\* Some breadth row gives station i a measurement on a line the positions
\* table has no measurement for.
Unplaced(spec, i) == WithoutUnplaced(spec, i) # spec

\* Station i is left with fewer than 4 points when those rows are skipped.
TooFewPoints(spec, i) ==
    Len(remove_duplicates(Collected(WithoutUnplaced(spec, i), i))) < 4

\* C25: get_hull fails only when a sheer measurement is omitted or a
\* station is left with fewer than 4 points; a breadth row on a line that
\* has no position row is skipped and does not make get_hull fail.
C25_UndefinedSkipped ==
    (bd_hull # NoResult /\ bd_hull.status # "Ok") =>
        \/ SheerMissing(bd_spec.data)
        \/ \E i \in 1..Len(bd_spec.data.stations) : TooFewPoints(bd_spec, i)

\* What does hold: get_hull fails exactly when a sheer measurement is
\* omitted, a breadth row has no position for its line, or a station is
\* left with fewer than 4 points.
C25_ErrorsOfGetHull ==
    bd_hull # NoResult =>
        (bd_hull.status # "Ok" <=>
            \/ SheerMissing(bd_spec.data)
            \/ \E i \in 1..Len(bd_spec.data.stations) :
                  Unplaced(bd_spec, i) \/ TooFewPoints(bd_spec, i))

\* ------------------------------------------------------------------------
\* Properties of hallucinate_station.

\* The cross-hull line at fraction i / 10, and at_x(posn) on it.
LineAt(i) == get_line(hull, Div(i * FP, 10))
OnLine(i, posn) == Spline_at_x(LineAt(i).points, posn)

\* The station hallucinate_station returned has the 11 points at_x gave,
\* in the order of the fractions, as its reference points.
ElevenPoints ==
    hl_station.result.status = "Ok" =>
        /\ Len(hl_station.result.points) = 11
        /\ \A i \in 0..10 :
              hl_station.result.points[i + 1] = OnLine(i, hl_station.posn).point

\* C26: hallucinate_station(position) takes at_x(position) on the line
\* through at_t(i / 10) of every station, for i = 0..10; the 11 points, in
\* that order, unsorted and with their duplicates, are the reference
\* points of the Station; and the call returns an error when the Hull has
\* fewer than 4 stations.
C26_AsStated ==
    hl_station # NoStation =>
        /\ ElevenPoints
        /\ Len(hull.stations) < 4 => hl_station.result.status = "Err"

\* What does hold: the 11 points; an error for a Hull of 1 to 3 stations;
\* and the panic of Spline::new on the empty list for a Hull of none.
C26_ElevenPoints ==
    hl_station # NoStation =>
        /\ ElevenPoints
        /\ Len(hull.stations) \in 1..3 => hl_station.result.status = "Err"
        /\ Len(hull.stations) = 0 => hl_station.result.status = "Panic"

\* Every cached sample of the line is before, or past, position x.
AllBefore(points, x) == \A k \in 1..Len(points) : points[k][1] < x
AllPast(points, x) == \A k \in 1..Len(points) : points[k][1] > x

\* Position x is past every reference point of every station of the Hull.
PastLastStation(x) ==
    \A k \in 1..Len(hull.stations) : AllBefore(hull.stations[k].points, x)

\* C28: at_x never returns an error.  On the cross-hull lines of a Hull of
\* four stations: for x before every cached sample it returns the first
\* cached sample; for x past every cached sample the index is the length
\* of the polyline and the call panics.  So hallucinate_station, and
\* get_point on a Position, panic for a position past the last station,
\* and return no error.
C28_PastLastAborts ==
    /\ (hl_station # NoStation /\ Len(hull.stations) >= 4) =>
          /\ \A i \in 0..10 :
                LET points == LineAt(i).points
                    at == OnLine(i, hl_station.posn)
                IN  /\ at.status \in {"Ok", "Panic"}
                    /\ AllPast(points, hl_station.posn) =>
                          at = [status |-> "Ok", point |-> points[1]]
                    /\ AllBefore(points, hl_station.posn) =>
                          at.status = "Panic"
          /\ hl_station.result.status # "Err"
          /\ PastLastStation(hl_station.posn) =>
                hl_station.result.status = "Panic"
    /\ (/\ hl_point # NoPoint
        /\ Len(hull.stations) >= 4
        /\ hl_point.station.kind = "Position"
        /\ PastLastStation(hl_point.station.posn)) =>
          hl_point.result.status = "Panic"

\* hallucinate_station at 4.5 ft on the Hull whose last station is at 4 ft
\* has panicked, and get_point on a Position past the last station too.
C28_Witness ==
    /\ hl_station # NoStation
    /\ Len(hull.stations) = 4
    /\ hull.stations[4].points[1][1] = 4 * FP
    /\ hl_station.posn = Tenths(45)
    /\ hl_station.result.status = "Panic"
    /\ hl_point # NoPoint
    /\ hl_point.station = AtPosition(Tenths(45))
    /\ hl_point.result.status = "Panic"

\* hallucinate_station at 0.5 ft on the Hull whose first station is at
\* 1 ft has returned a station of the first cached samples of the lines.
BeforeFirstStation ==
    /\ hl_station # NoStation
    /\ Len(hull.stations) = 4
    /\ hl_station.posn = Tenths(5)
    /\ AllPast(LineAt(0).points, Tenths(5))
    /\ hl_station.result.status = "Ok"
    /\ hl_station.result.points[1] = LineAt(0).points[1]

\* ------------------------------------------------------------------------
\* Properties of get_planks over tables with omitted cells.

\* The columns in which a row of the plank table has a cell.
GivenCells(row) == {j \in 1..Len(row) : row[j].some}

\* The rows get_planks reads: the first 2 * (rows / 2).
UsedRows ==
    1..(2 * (Len(hull.planks.plank_locations) \div 2))

\* C27: the Plank of rows 2k - 1 and 2k has resolution
\* floor((cells of the bottom row + cells of the top row) / 2) times the
\* resolution of the Hull, and flattening it resamples both boundaries to
\* that many points and one: the numbers of top and bottom points never
\* differ and Plank::triangles does not panic, not even when the rows
\* have different numbers of cells.
C27_SameCount ==
    hl_planks.status = "Ok" =>
        /\ \A k \in 1..Len(hl_planks.planks) :
              hl_planks.planks[k].resolution =
                  ((Cardinality(GivenCells(hull.planks.plank_locations[2 * k - 1]))
                    + Cardinality(GivenCells(hull.planks.plank_locations[2 * k])))
                   \div 2) * hull.resolution
        /\ hl_flat # NoPlanks =>
              /\ hl_flat.status = "Ok"
              /\ Len(hl_flat.planks) = Len(hl_planks.planks)
              /\ \A k \in 1..Len(hl_flat.planks) :
                    /\ Len(hl_flat.planks[k].top_line) =
                           hl_planks.planks[k].resolution + 1
                    /\ Len(hl_flat.planks[k].bottom_line) =
                           hl_planks.planks[k].resolution + 1

\* A plank of five bottom and four top reference points, whose cached
\* boundaries differ in length, has been flattened to 4 * HullRes + 1
\* points a side.
C27_Witness ==
    /\ hl_planks.status = "Ok"
    /\ hl_flat.status = "Ok"
    /\ Cardinality(GivenCells(hull.planks.plank_locations[1])) = 5
    /\ Cardinality(GivenCells(hull.planks.plank_locations[2])) = 4
    /\ Len(hl_planks.planks[1].bottom_line) # Len(hl_planks.planks[1].top_line)
    /\ hl_planks.planks[1].resolution = 4 * HullRes
    /\ Len(hl_flat.planks[1].top_line) = 4 * HullRes + 1
    /\ Len(hl_flat.planks[1].bottom_line) = 4 * HullRes + 1

\* A row get_planks reads cannot become a boundary: it has fewer than 4
\* cells, a cell at a station no station of the Hull is named after, or a
\* cell at a position hallucinate_station fails for.
BadRow(r) ==
    LET row == hull.planks.plank_locations[r]
    IN  \/ Cardinality(GivenCells(row)) < 4
        \/ \E j \in GivenCells(row) :
              LET station == hull.planks.stations[j]
              IN  IF station.kind = "Station"
                  THEN Named(hull, station.name) = {}
                  ELSE hallucinate_station(hull, station.posn).status # "Ok"

\* Nothing but the failure comes back, from get_planks and then from
\* get_flattened_planks.
NothingPartial ==
    /\ (hl_planks # NoPlanks /\ hl_planks.status # "Ok") =>
          hl_planks.planks = <<>>
    /\ (hl_planks # NoPlanks /\ hl_planks.status # "Ok" /\ hl_flat # NoPlanks) =>
          hl_flat = [status |-> hl_planks.status, planks |-> <<>>]

\* C29: when a row get_planks reads has a cell that does not resolve or
\* fewer than 4 points, get_planks returns an error and no plank, not
\* even those of earlier rows, and get_flattened_planks the same.
C29_AsStated ==
    /\ NothingPartial
    /\ (hl_planks # NoPlanks /\ \E r \in UsedRows : BadRow(r)) =>
          hl_planks.status = "Err"

\* What does hold: such a table gives an error or a panic, never planks,
\* and a table without such a row gives its planks.
C29_AllOrNothing ==
    /\ NothingPartial
    /\ hl_planks # NoPlanks =>
          ((\E r \in UsedRows : BadRow(r)) <=> hl_planks.status \in {"Err", "Panic"})

\* ------------------------------------------------------------------------
\* Properties of the windows Spline::new hands to CentripetalCatmullRom.

\* The pairs of knots intermediate is called with by compute.
BlendPairs == {<<0, 1>>, <<1, 2>>, <<2, 3>>, <<0, 2>>, <<1, 3>>, <<0, 3>>}

\* C30: for any list of points, repeated ones included, every window of
\* four points that Spline::new passes to CentripetalCatmullRom::new has
\* no two consecutive points equal; so its knots are 0 = t0 < t1 < t2 < t3
\* and no blend of intermediate has a denominator of zero.  (Points that
\* differ are at least one unit of the arithmetic apart.)
C30_KnotsIncrease ==
    (sp.status = "Ok" /\ sp_query = NoQuery) =>
        LET ref_points == count_multiplicity(sp_input)
            n == Len(ref_points)
        IN  \A i \in 1..(n - 3) :
                LET c == CentripetalCatmullRom_new(
                             <<ref_points[i][1], ref_points[i + 1][1],
                               ref_points[i + 2][1], ref_points[i + 3][1]>>)
                IN  /\ \A k \in 1..3 : c.points[k] # c.points[k + 1]
                    /\ c.knots[0] = 0
                    /\ \A k \in 0..2 : c.knots[k] < c.knots[k + 1]
                    /\ \A pair \in BlendPairs :
                          c.knots[pair[2]] - c.knots[pair[1]] # 0

\* A Spline on five points, the second given twice in a row and the first
\* again at the end: four reference points, one window.
C30_Witness ==
    /\ sp.status = "Ok"
    /\ sp_query = NoQuery
    /\ Len(sp_input) = 5
    /\ sp_input[2] = sp_input[3]
    /\ sp_input[5] = sp_input[1]
    /\ Len(count_multiplicity(sp_input)) = 4

====
